---- MODULE Spec2Model ----
(***************************************************************************)
(* The adaptive panel layout and drag-resize engine of the node detail     *)
(* view (NDVDraggablePanels.vue).                                          *)
(*                                                                         *)
(* Relative horizontal values (fractions of the container width) are kept  *)
(* as exact integers in units of 1/WidthUnit, relative vertical values in  *)
(* units of 1/HeightUnit; every container width of Widths divides          *)
(* WidthUnit/2 and every viewport height divides HeightUnit/2, so the      *)
(* divisions of the source are exact.                                      *)
(***************************************************************************)
EXTENDS Integers, Sequences, FiniteSets

(* ------------------------------ constants ------------------------------ *)
SIDE_MARGIN == 24
SIDE_PANELS_MARGIN == 80
MIN_PANEL_WIDTH == 310
PANEL_WIDTH == 350
PANEL_WIDTH_LARGE == 420
MIN_WINDOW_WIDTH == 2 * (SIDE_MARGIN + SIDE_PANELS_MARGIN) + MIN_PANEL_WIDTH
TOP_BOTTOM_MARGIN == 24
VERTICAL_PANELS_MARGIN == 60
PANEL_HEIGHT == 250
PANEL_HEIGHT_LARGE == 300
\* imported from '@/constants'
MAIN_NODE_PANEL_WIDTH == 390
\* fixedPanelWidth switches to PANEL_WIDTH_LARGE above this container width
LARGE_CONTAINER_WIDTH == 1700
\* useVerticalLayout: isMobile = width < 768
MOBILE_WIDTH == 768
\* useThrottleFn(onResize, 100)
ThrottleMs == 100

\* imported from '@/constants' by useBreakpoints
BREAKPOINT_SM == 768
BREAKPOINT_MD == 992
BREAKPOINT_LG == 1200
BREAKPOINT_XL == 1920
\* callDebounced(onResizeEnd, { debounceTime: 50 })
DebounceMs == 50
\* window.innerWidth as the tests of useBreakpoints set it up
INNER_WIDTH == 1024

(* ------------------------------- bounds -------------------------------- *)
\* milliseconds that pass in one DebounceTick
DebounceTickMs == 25
\* resize notifications in one burst
MaxBurst == 3
\* milliseconds that pass in one Tick
TickMs == 50
\* zero-delay timers that may be pending at once
MaxTimers == 2

\* container and viewport widths, in px
Widths == {375, 1000, 1920}
\* viewports (width x height, in px): a phone in portrait, a tablet in
\* portrait, a large desktop
Viewports ==
    {[width |-> 375, height |-> 667], [width |-> 1000, height |-> 1200],
     [width |-> 1920, height |-> 1080]}

\* every width of Widths divides WidthUnit / 2, every height HeightUnit / 2
WidthUnit == 2 * 96000
HeightUnit == 2 * 7203600

\* the JavaScript values NaN and undefined, outside the range of the numbers
NaN == 0 - 1000000000
Undefined == 0 - 1000000001
Falsy(v) == v = 0 \/ v = NaN \/ v = Undefined
\* a || b
OrElse(a, b) == IF Falsy(a) THEN b ELSE a

Max(a, b) == IF a >= b THEN a ELSE b
Min(a, b) == IF a <= b THEN a ELSE b

PanelTypes == {"regular", "dragless", "unknown", "inputless", "wide"}

\* names of nodes the floating nodes may ask to switch to
NodeNames == {"Webhook", "Merge"}

\* props.nodeType: null, or a description whose parameterPane is absent or 'wide'
NodeTypes == {"null", "plain", "wide"}

\* props and slots of the component
PropsSet ==
    [isDraggable : BOOLEAN, hideInputAndOutput : BOOLEAN,
     nodeType : NodeTypes, hasInput : BOOLEAN]

(* --------------------------- pure computations ------------------------- *)
initialMainPanelWidth(t) ==
    IF t = "wide" THEN MAIN_NODE_PANEL_WIDTH * 2 ELSE MAIN_NODE_PANEL_WIDTH

initialMainPanelHeight(t) ==
    IF t = "wide" THEN PANEL_HEIGHT_LARGE ELSE PANEL_HEIGHT

pxToRelativeWidth(px, cw) == px * (WidthUnit \div cw)

pxToRelativeHeight(px, h) == px * (HeightUnit \div h)

hasInputSlot(p) == p.hasInput

\* currentNodePaneType testing draggability before the input region
currentNodePaneTypeDraglessFirst(p) ==
    IF ~p.isDraggable THEN "dragless"
    ELSE IF ~hasInputSlot(p) THEN "inputless"
    ELSE IF p.nodeType = "null" THEN "unknown"
    ELSE IF p.nodeType = "wide" THEN "wide" ELSE "regular"

currentNodePaneType(p) ==
    IF ~hasInputSlot(p) THEN "inputless"
    ELSE IF ~p.isDraggable THEN "dragless"
    ELSE IF p.nodeType = "null" THEN "unknown"
    ELSE IF p.nodeType = "wide" THEN "wide" ELSE "regular"

\* useVerticalLayout for every portrait viewport, touch or not
useVerticalLayoutAnyPortrait(g, touch) ==
    LET isMobile == g.width < MOBILE_WIDTH
        isPortrait == g.height > g.width
    IN  isPortrait \/ isMobile

useVerticalLayout(g, touch) ==
    LET isMobile == g.width < MOBILE_WIDTH
        isPortrait == g.height > g.width
    IN  (isPortrait /\ touch) \/ isMobile

inputPanelMargin(cw) == pxToRelativeWidth(SIDE_PANELS_MARGIN, cw)

minimumLeftPosition(p, cw) ==
    IF cw < MIN_WINDOW_WIDTH THEN pxToRelativeWidth(1, cw)
    ELSE IF ~hasInputSlot(p) THEN pxToRelativeWidth(SIDE_MARGIN, cw)
    ELSE pxToRelativeWidth(SIDE_MARGIN + 20, cw) + inputPanelMargin(cw)

maximumRightPosition(p, cw) ==
    IF cw < MIN_WINDOW_WIDTH THEN pxToRelativeWidth(1, cw)
    ELSE pxToRelativeWidth(SIDE_MARGIN + 20, cw) + inputPanelMargin(cw)

hasDoubleWidth(p) == p.nodeType = "wide"

fixedPanelWidth(p, cw) ==
    LET multiplier == IF hasDoubleWidth(p) THEN 2 ELSE 1
    IN  IF cw > LARGE_CONTAINER_WIDTH THEN PANEL_WIDTH_LARGE * multiplier
        ELSE PANEL_WIDTH * multiplier

\* the geometry of one panel type; dm is the whole store
mainPanelDimensions(dm, p) == dm[currentNodePaneType(p)]

calculatedPositions(dm, p, cw) ==
    LET d == mainPanelDimensions(dm, p)
        outputPanelRelativeLeft == d.relativeLeft + d.relativeWidth
    IN  [inputPanelRelativeRight |->
             IF p.hasInput
             THEN WidthUnit - outputPanelRelativeLeft + d.relativeWidth
             ELSE WidthUnit - pxToRelativeWidth(SIDE_MARGIN, cw),
         outputPanelRelativeLeft |-> outputPanelRelativeLeft]

relativeWidthToPx(relativeWidth, cw) == relativeWidth * cw

\* outputPanelRelativeTranslate leaving out the side margin
outputPanelRelativeTranslateNoMargin(dm, p, cw) ==
    LET panelMinLeft == WidthUnit - pxToRelativeWidth(MIN_PANEL_WIDTH, cw)
        currentRelativeLeftDelta ==
            calculatedPositions(dm, p, cw).outputPanelRelativeLeft - panelMinLeft
    IN  IF currentRelativeLeftDelta > 0 THEN currentRelativeLeftDelta ELSE 0

outputPanelRelativeTranslate(dm, p, cw) ==
    LET panelMinLeft == WidthUnit - pxToRelativeWidth(MIN_PANEL_WIDTH + SIDE_MARGIN, cw)
        currentRelativeLeftDelta ==
            calculatedPositions(dm, p, cw).outputPanelRelativeLeft - panelMinLeft
    IN  IF currentRelativeLeftDelta > 0 THEN currentRelativeLeftDelta ELSE 0

\* left and translateX(-...) of the output panel, in 1/WidthUnit px
outputPanelStyles(dm, p, cw) ==
    [left |->
        relativeWidthToPx(calculatedPositions(dm, p, cw).outputPanelRelativeLeft, cw),
     translateX |-> 0 - relativeWidthToPx(outputPanelRelativeTranslate(dm, p, cw), cw)]

\* getInitialLeftPosition without the case of the dragless panel
getInitialLeftPositionCentresDragless(p, cw, width) ==
    IF hasInputSlot(p)
    THEN (IF width = NaN THEN NaN ELSE (WidthUnit \div 2) - (width \div 2))
    ELSE minimumLeftPosition(p, cw)

getInitialLeftPosition(p, cw, width) ==
    IF currentNodePaneType(p) = "dragless"
    THEN pxToRelativeWidth(SIDE_MARGIN + 1 + fixedPanelWidth(p, cw), cw)
    ELSE IF hasInputSlot(p)
         THEN (IF width = NaN THEN NaN ELSE (WidthUnit \div 2) - (width \div 2))
         ELSE minimumLeftPosition(p, cw)

\* ndvStore.setMainPanelDimensions: the given fields replace the stored ones
setMainPanelDimensions(dm, panelType, dimensions) ==
    [dm EXCEPT ![panelType] =
        [f \in DOMAIN dm[panelType] |->
            IF f \in DOMAIN dimensions THEN dimensions[f] ELSE dm[panelType][f]]]

setMainPanelWidth(dm, p, cw, relativeWidth) ==
    LET mainPanelRelativeWidth ==
            OrElse(relativeWidth,
                   pxToRelativeWidth(initialMainPanelWidth(currentNodePaneType(p)), cw))
    IN  setMainPanelDimensions(dm, currentNodePaneType(p),
                               [relativeWidth |-> mainPanelRelativeWidth])

(* ----------------------------- IEEE doubles ---------------------------- *)
\* The code computes in IEEE doubles. The model computes every quantity
\* exactly, in units of 1 / WidthUnit, and carries along the rounding error of
\* the double the code has in its place: a double is written [n, d] and stands
\* for
\*     n / WidthUnit + d / (OddPart * 2^ErrorBits);
\* n is the exact quantity and d the rounding error. The exact quantities
\* decide every comparison of the code except between two quantities that are
\* equal when computed exactly: there the errors decide.
\* WidthUnit = 2^9 * OddPart.
OddPart == 375
ErrorBits == 66

\* 2^k modulo m, for k below 60, within 32 bits
pow2mod(k, m) == (((2 ^ (k \div 2)) % m) * ((2 ^ (k - (k \div 2))) % m)) % m

\* 2^k, and 2^k modulo 2 * OddPart, tabulated
PowersOfTwo == [k \in 0..24 |-> 2 ^ k]
PowersOfTwoModOdd == [k \in 0..(ErrorBits - 9) |-> pow2mod(k, 2 * OddPart)]


\* the exponent of the largest power of two that is at most q, tabulated
FloorLog2 ==
    [q \in 1..4095 |->
        CHOOSE k \in 0..11 : PowersOfTwo[k] <= q /\ q < PowersOfTwo[k + 1]]

\* the binary exponent e of a / WidthUnit, 0 < a < 8 * WidthUnit:
\* 2^e <= a / WidthUnit < 2^(e+1), that is 2^(e+9) <= a / OddPart < 2^(e+10)
exponentOfMagnitude(a) ==
    IF a >= OddPart THEN FloorLog2[a \div OddPart] - 9
    ELSE FloorLog2[(a * 4096) \div OddPart] - 21

\* the magnitudes that are a power of two: WidthUnit * 2^e, e from -9 to 2
DyadicUnits == {OddPart * PowersOfTwo[k] : k \in 0..11}

\* the binary exponent e of the number [n, d], n # 0: 2^e <= |number| < 2^(e+1);
\* one less than that of n where |n| is a power of two and the error brings
\* the magnitude below it
binaryExponent(n, d) ==
    exponentOfMagnitude(IF n < 0 THEN 0 - n ELSE n)
    - (IF \/ (n > 0 /\ d < 0 /\ n \in DyadicUnits)
          \/ (n < 0 /\ d > 0 /\ (0 - n) \in DyadicUnits)
       THEN 1 ELSE 0)

\* the number [n, d] rounded to a multiple of ulp, in units of
\* 1 / (OddPart * 2^ErrorBits): remainder is the number modulo 2 * ulp; the
\* nearer multiple, the even one at a tie
roundToMultiple(n, d, ulp, remainder) ==
    [n |-> n,
     d |-> IF \/ 2 * (remainder % ulp) < ulp
              \/ 2 * (remainder % ulp) = ulp /\ remainder < ulp
           THEN d - (remainder % ulp) ELSE d - (remainder % ulp) + ulp]

\* the number [n, d] rounded to a multiple of 2^-g: s is 2^(ErrorBits - g) and
\* power is 2^(g - 9) modulo 2 * OddPart
roundToGrid(n, d, s, power) ==
    roundToMultiple(n, d, OddPart * s,
        ((((n % (2 * OddPart)) * power) % (2 * OddPart)) * s + d) % (2 * OddPart * s))

\* the number [n, d] rounded to g binary places below one
roundToPlaces(n, d, g) ==
    IF g > ErrorBits THEN [n |-> n, d |-> d]
    ELSE roundToGrid(n, d, PowersOfTwo[ErrorBits - g], PowersOfTwoModOdd[g - 9])

\* round-to-nearest, ties-to-even, of the number [n, d] to a double: to 52
\* binary places below its leading one. A number with n = 0 is the difference
\* of two doubles that are close, which is exact.
roundToDouble(n, d) ==
    IF n = 0 THEN [n |-> n, d |-> d]
    ELSE roundToPlaces(n, d, 52 - binaryExponent(n, d))

\* the double nearest to n / WidthUnit: what px / containerWidth gives, and
\* parseFloat of a text written by toString; NaN is NaN
double(n) == IF n = NaN THEN [n |-> NaN, d |-> 0] ELSE roundToDouble(n, 0)

doubleAdd(a, b) == roundToDouble(a.n + b.n, a.d + b.d)
doubleSub(a, b) == roundToDouble(a.n - b.n, a.d - b.d)
\* a / 2
doubleHalf(a) == [n |-> a.n \div 2, d |-> a.d \div 2]
\* the double 1
One == [n |-> WidthUnit, d |-> 0]
\* a < b
doubleLess(a, b) == a.n < b.n \/ (a.n = b.n /\ a.d < b.d)
\* a || ... takes the other operand: a is NaN or 0
FalsyDouble(a) == a.n = NaN \/ (a.n = 0 /\ a.d = 0)

pxToRelativeWidthDouble(px, cw) == double(pxToRelativeWidth(px, cw))

minimumLeftPositionDouble(p, cw) ==
    IF cw < MIN_WINDOW_WIDTH THEN pxToRelativeWidthDouble(1, cw)
    ELSE IF ~hasInputSlot(p) THEN pxToRelativeWidthDouble(SIDE_MARGIN, cw)
    ELSE doubleAdd(pxToRelativeWidthDouble(SIDE_MARGIN + 20, cw),
                   pxToRelativeWidthDouble(SIDE_PANELS_MARGIN, cw))

maximumRightPositionDouble(p, cw) ==
    IF cw < MIN_WINDOW_WIDTH THEN pxToRelativeWidthDouble(1, cw)
    ELSE doubleAdd(pxToRelativeWidthDouble(SIDE_MARGIN + 20, cw),
                   pxToRelativeWidthDouble(SIDE_PANELS_MARGIN, cw))

\* bound > a for the double boundDouble of the bound: decided by the doubles
\* when the two are equal computed exactly
aboveDouble(bound, boundDouble, a) ==
    bound > a.n \/ (bound = a.n /\ boundDouble.d > a.d)

\* minimumLeftPosition.value > a and maximumRightPosition.value > a
belowMinimumLeft(p, cw, a) ==
    aboveDouble(minimumLeftPosition(p, cw), minimumLeftPositionDouble(p, cw), a)

belowMaximumRight(p, cw, a) ==
    aboveDouble(maximumRightPosition(p, cw), maximumRightPositionDouble(p, cw), a)

\* the doubles in the store. relativeWidth is a quotient px / containerWidth
\* or a parsed text, the double nearest to its exact value; relativeLeft and
\* relativeRight are results of setPositions and are stored with their errors
relativeWidthDouble(dm, p) == double(mainPanelDimensions(dm, p).relativeWidth)

relativeLeftDouble(dm, p) ==
    [n |-> mainPanelDimensions(dm, p).relativeLeft,
     d |-> mainPanelDimensions(dm, p).leftError]

relativeRightDouble(dm, p) ==
    [n |-> mainPanelDimensions(dm, p).relativeRight,
     d |-> mainPanelDimensions(dm, p).rightError]

\* the double getInitialLeftPosition returns for the double width
getInitialLeftPositionDouble(p, cw, width) ==
    LET n == getInitialLeftPosition(p, cw, width.n)
    IN  IF n = NaN THEN [n |-> NaN, d |-> 0]
        ELSE [n |-> n,
              d |-> (IF currentNodePaneType(p) = "dragless" THEN double(n)
                     ELSE IF hasInputSlot(p)
                     THEN doubleSub(double(WidthUnit \div 2), doubleHalf(width))
                     ELSE minimumLeftPositionDouble(p, cw)).d]

\* 1 - calculatedPositions.inputPanelRelativeRight in doubles, lines 165-169
\* and 362
fallbackLeftDouble(dm, p, cw) ==
    LET one == One
        relativeWidth == relativeWidthDouble(dm, p)
        outputPanelRelativeLeft == doubleAdd(relativeLeftDouble(dm, p), relativeWidth)
        inputPanelRelativeRight ==
            IF p.hasInput
            THEN doubleAdd(doubleSub(one, outputPanelRelativeLeft), relativeWidth)
            ELSE doubleSub(one, pxToRelativeWidthDouble(SIDE_MARGIN, cw))
    IN  doubleSub(one, inputPanelRelativeRight)

\* the fields setPositions stores for the doubles left and right
storedPosition(left, right) ==
    [relativeLeft |-> left.n, leftError |-> left.d,
     relativeRight |-> right.n, rightError |-> right.d]

\* setPositions from line 363 on, for the doubles it reads: relativeWidth is
\* relativeWidth.value, mainPanelRelativeLeft the value of lines 361-362,
\* minimumLeft and maximumRight are minimumLeftPosition.value and
\* maximumRightPosition.value
setPositionsBetween(dm, p, cw, relativeWidth, mainPanelRelativeLeft, minimumLeft, maximumRight) ==
    LET mainPanelRelativeRight ==
            doubleSub(doubleSub(One, mainPanelRelativeLeft), relativeWidth)
        isMaxRight ==
            aboveDouble(maximumRightPosition(p, cw), maximumRight, mainPanelRelativeRight)
        isMinLeft ==
            aboveDouble(minimumLeftPosition(p, cw), minimumLeft, mainPanelRelativeLeft)
        isInputless == currentNodePaneType(p) = "inputless"
    IN  IF isMinLeft
        THEN setMainPanelDimensions(dm, currentNodePaneType(p),
                storedPosition(minimumLeft,
                    doubleSub(doubleSub(One, relativeWidth), minimumLeft)))
        ELSE IF isMaxRight
        THEN setMainPanelDimensions(dm, currentNodePaneType(p),
                storedPosition(
                    doubleSub(doubleSub(One, relativeWidth), maximumRight),
                    maximumRight))
        ELSE setMainPanelDimensions(dm, currentNodePaneType(p),
                storedPosition(
                    IF isInputless THEN minimumLeft ELSE mainPanelRelativeLeft,
                    mainPanelRelativeRight))

\* setPositions, lines 360-399; relativeLeft is a double
setPositions(dm, p, cw, relativeLeft) ==
    setPositionsBetween(dm, p, cw, relativeWidthDouble(dm, p),
        IF FalsyDouble(relativeLeft) THEN fallbackLeftDouble(dm, p, cw)
        ELSE relativeLeft,
        minimumLeftPositionDouble(p, cw), maximumRightPositionDouble(p, cw))

setVerticalPositions(p, h, relativeTop) ==
    LET mainPanelHeight == initialMainPanelHeight(currentNodePaneType(p))
        minTop == pxToRelativeHeight(
                      TOP_BOTTOM_MARGIN + PANEL_HEIGHT + VERTICAL_PANELS_MARGIN, h)
        maxTop == HeightUnit
                  - pxToRelativeHeight(
                        TOP_BOTTOM_MARGIN + PANEL_HEIGHT + VERTICAL_PANELS_MARGIN, h)
                  - pxToRelativeHeight(mainPanelHeight, h)
    IN  Max(minTop, Min(maxTop, relativeTop))

\* the vertical positions by default, lines 179-213
calculatedVerticalPositions(p, h) ==
    LET inputPanelHeight == IF p.hasInput THEN PANEL_HEIGHT ELSE 0
        mainPanelHeight == initialMainPanelHeight(currentNodePaneType(p))
        inputPanelRelativeHeight == inputPanelHeight * (HeightUnit \div h)
        mainPanelRelativeHeight == mainPanelHeight * (HeightUnit \div h)
        inputPanelRelativeTop == pxToRelativeHeight(TOP_BOTTOM_MARGIN, h)
        mainPanelRelativeTop ==
            inputPanelRelativeTop + inputPanelRelativeHeight
            + pxToRelativeHeight(VERTICAL_PANELS_MARGIN, h)
        outputPanelRelativeTop ==
            mainPanelRelativeTop + mainPanelRelativeHeight
            + pxToRelativeHeight(VERTICAL_PANELS_MARGIN, h)
    IN  [inputPanelRelativeBottom |->
             HeightUnit - inputPanelRelativeTop - inputPanelRelativeHeight,
         outputPanelRelativeTop |-> outputPanelRelativeTop,
         mainPanelRelativeTop |-> mainPanelRelativeTop,
         mainPanelRelativeBottom |->
             HeightUnit - mainPanelRelativeTop - mainPanelRelativeHeight]

\* verticalMainPanelStyles taking the bottom of the default position
verticalMainPanelStylesDefaultBottom(verticalPosition, p, h) ==
    LET topPosition ==
            OrElse(verticalPosition, calculatedVerticalPositions(p, h).mainPanelRelativeTop)
    IN  [topPosition |-> topPosition,
         bottomPosition |-> calculatedVerticalPositions(p, h).mainPanelRelativeBottom]

\* topPosition and bottomPosition of the main panel in vertical layout, lines
\* 292-295; the styles top and bottom are the two in px, each times the height
\* of the container
verticalMainPanelStyles(verticalPosition, p, h) ==
    LET topPosition ==
            OrElse(verticalPosition, calculatedVerticalPositions(p, h).mainPanelRelativeTop)
        mainPanelHeight == initialMainPanelHeight(currentNodePaneType(p))
        bottomPosition == HeightUnit - topPosition - mainPanelHeight * (HeightUnit \div h)
    IN  [topPosition |-> topPosition, bottomPosition |-> bottomPosition]

\* the input band in vertical layout, lines 275-288; top and bottom are the
\* distances from the top and the bottom edge in units of the viewport height
verticalInputPanelStyles(verticalPosition, p, h) ==
    LET mainPanelTop ==
            OrElse(verticalPosition, calculatedVerticalPositions(p, h).mainPanelRelativeTop)
        inputBottom ==
            HeightUnit - mainPanelTop + pxToRelativeHeight(VERTICAL_PANELS_MARGIN, h)
    IN  [top |-> pxToRelativeHeight(TOP_BOTTOM_MARGIN, h), bottom |-> inputBottom]

\* the output band in vertical layout, lines 306-323, in the same units
verticalOutputPanelStyles(verticalPosition, p, h) ==
    LET mainPanelTop ==
            OrElse(verticalPosition, calculatedVerticalPositions(p, h).mainPanelRelativeTop)
        mainPanelHeight == initialMainPanelHeight(currentNodePaneType(p))
        outputTop ==
            mainPanelTop + mainPanelHeight * (HeightUnit \div h)
            + pxToRelativeHeight(VERTICAL_PANELS_MARGIN, h)
    IN  [top |-> outputTop, bottom |-> pxToRelativeHeight(TOP_BOTTOM_MARGIN, h)]

\* positionByName computing the initial position from relativeLeft
positionByNameFromLeft(dm, p, cw, position) ==
    IF position = "minLeft" THEN minimumLeftPosition(p, cw)
    ELSE IF position = "maxRight" THEN maximumRightPosition(p, cw)
    ELSE getInitialLeftPosition(p, cw, mainPanelDimensions(dm, p).relativeLeft)

positionByName(dm, p, cw, position) ==
    IF position = "minLeft" THEN minimumLeftPosition(p, cw)
    ELSE IF position = "maxRight" THEN maximumRightPosition(p, cw)
    ELSE getInitialLeftPosition(p, cw, mainPanelDimensions(dm, p).relativeWidth)

\* the double positionByName gives, lines 423-426
positionByNameDouble(dm, p, cw, position) ==
    [n |-> positionByName(dm, p, cw, position),
     d |-> (IF position = "minLeft" THEN minimumLeftPositionDouble(p, cw)
            ELSE IF position = "maxRight" THEN maximumRightPositionDouble(p, cw)
            ELSE getInitialLeftPositionDouble(p, cw, relativeWidthDouble(dm, p))).d]

\* setPositionByName that also resets the width to its default
setPositionByNameResetsWidth(dm, p, cw, position) ==
    setPositions(setMainPanelWidth(dm, p, cw, Undefined), p, cw,
                 positionByNameDouble(dm, p, cw, position))

setPositionByName(dm, p, cw, position) ==
    setPositions(dm, p, cw, positionByNameDouble(dm, p, cw, position))


(* ------------------------------ persistence ---------------------------- *)
\* values of the key/value store: null, or a string (the decimal text of a
\* number, the empty string, or text that is not a number)
Null == [kind |-> "null", num |-> 0]
EmptyText == [kind |-> "empty", num |-> 0]
Malformed == [kind |-> "malformed", num |-> 0]
\* the decimal text of w followed by text that is no part of a number ("0.5px")
Prefixed(w) == [kind |-> "prefixed", num |-> w]
\* Number.prototype.toString: the decimal text of w
toString(w) == [kind |-> "number", num |-> w]
\* parseInt in the place of parseFloat: the fraction is lost
parseFloatAsInt(s) ==
    IF s.kind = "number" THEN (s.num \div WidthUnit) * WidthUnit ELSE NaN

\* parseFloat: the number the longest numeric prefix of the text denotes, NaN
\* when the text has no such prefix
parseFloat(s) == IF s.kind \in {"number", "prefixed"} THEN s.num ELSE NaN
\* truthiness of a stored value: null and '' are falsy
Truthy(s) == s.kind \notin {"null", "empty"}

restorePositionData(dm, p, cw, st) ==
    LET storedPanelWidthData == st[currentNodePaneType(p)]
        parsedWidth == parseFloat(storedPanelWidthData)
        initialPosition == getInitialLeftPositionDouble(p, cw, double(parsedWidth))
    IN  IF Truthy(storedPanelWidthData)
        THEN setPositions(setMainPanelWidth(dm, p, cw, parsedWidth), p, cw,
                          initialPosition)
        ELSE dm

\* storePositionData that persists the position instead of the width
storePositionDataStoresLeft(dm, p, st) ==
    [st EXCEPT ![currentNodePaneType(p)] =
        toString(mainPanelDimensions(dm, p).relativeLeft)]

\* storePositionData writing under one key for all panel types
storePositionDataSharedKey(dm, p, st) ==
    [t \in PanelTypes |-> toString(mainPanelDimensions(dm, p).relativeWidth)]

storePositionData(dm, p, st) ==
    [st EXCEPT ![currentNodePaneType(p)] =
        toString(mainPanelDimensions(dm, p).relativeWidth)]

(* ------------------------------- handlers ------------------------------ *)
\* setPositions(mainPanelDimensions.value.relativeLeft), line 133
setPositionsAtRelativeLeft(dm, p, cw) ==
    setPositions(dm, p, cw, relativeLeftDouble(dm, p))

\* setPositions(getInitialLeftPosition(mainPanelDimensions.value.relativeWidth)),
\* lines 89 and 129
setPositionsAtInitialLeft(dm, p, cw) ==
    setPositions(dm, p, cw,
                 getInitialLeftPositionDouble(p, cw, relativeWidthDouble(dm, p)))

\* the sentinel geometry of a panel type that was never positioned
IsSentinel(d) == d.relativeLeft = WidthUnit /\ d.relativeRight = WidthUnit

\* onMounted initialising and restoring whatever the geometry is
mountGeometryUnguarded(dm, p, cw, st) ==
    LET d1 == setMainPanelWidth(dm, p, cw, Undefined)
        d2 == setPositionsAtInitialLeft(d1, p, cw)
    IN  restorePositionData(d2, p, cw, st)

\* onMounted, lines 84-91
mountGeometry(dm, p, cw, st) ==
    LET d1 == setMainPanelWidth(dm, p, cw, Undefined)
        d2 == setPositionsAtInitialLeft(d1, p, cw)
    IN  IF IsSentinel(mainPanelDimensions(dm, p))
        THEN restorePositionData(d2, p, cw, st)
        ELSE dm

\* watch(appGridDimensions), lines 116-133: cw is the new container width,
\* dimensionsWidth the new viewport width
reclampOnViewportChange(dm, p, cw, dimensionsWidth) ==
    LET minRelativeWidth == pxToRelativeWidth(MIN_PANEL_WIDTH, cw)
        isBelowMinWidthMainPanel ==
            mainPanelDimensions(dm, p).relativeWidth < minRelativeWidth
        d1 == IF isBelowMinWidthMainPanel
              THEN setMainPanelWidth(dm, p, cw, minRelativeWidth) ELSE dm
        isBelowMinLeft == belowMinimumLeft(p, cw, relativeLeftDouble(d1, p))
        isMaxRight == belowMaximumRight(p, cw, relativeRightDouble(d1, p))
        d2 == setMainPanelWidth(d1, p, cw, minRelativeWidth)
        d3 == IF dimensionsWidth > MIN_WINDOW_WIDTH /\ isBelowMinLeft /\ isMaxRight
              THEN setPositionsAtInitialLeft(d2, p, cw)
              ELSE d1
    IN  setPositionsAtRelativeLeft(d3, p, cw)

\* relativeDistance <= minimumLeftPosition.value, line 461: decided by the
\* doubles when the two are equal computed exactly
atOrLeftOfMinimumLeft(p, cw, x) ==
    LET relativeDistance == pxToRelativeWidth(x, cw)
    IN  \/ relativeDistance < minimumLeftPosition(p, cw)
        \/ /\ relativeDistance = minimumLeftPosition(p, cw)
           /\ ~doubleLess(minimumLeftPositionDouble(p, cw),
                          pxToRelativeWidthDouble(x, cw))

\* 1 - relativeDistance <= maximumRightPosition.value, line 462, likewise
atOrRightOfMaximumRight(p, cw, x) ==
    LET relativeDistance == pxToRelativeWidth(x, cw)
    IN  \/ WidthUnit - relativeDistance < maximumRightPosition(p, cw)
        \/ /\ WidthUnit - relativeDistance = maximumRightPosition(p, cw)
           /\ ~doubleLess(maximumRightPositionDouble(p, cw),
                          doubleSub(One, pxToRelativeWidthDouble(x, cw)))

\* the guards of onResize, lines 461-463
onResizeAccepts(p, cw, direction, x, width) ==
    /\ ~(direction = "left" /\ atOrLeftOfMinimumLeft(p, cw, x))
    /\ ~(direction = "right" /\ atOrRightOfMaximumRight(p, cw, x))
    /\ ~(width <= MIN_PANEL_WIDTH)

onResize(dm, p, cw, direction, x, width) ==
    LET relativeDistance == pxToRelativeWidth(x, cw)
        relativeWidth == pxToRelativeWidth(width, cw)
        d1 == setMainPanelWidth(dm, p, cw, relativeWidth)
    IN  IF onResizeAccepts(p, cw, direction, x, width)
        THEN setPositions(d1, p, cw,
                 IF direction = "left" THEN double(relativeDistance)
                 ELSE relativeLeftDouble(d1, p))
        ELSE dm

\* useThrottleFn(onResize, 100): trailing = false, leading = true; a call is
\* passed on when more than the window has elapsed since the last one passed
\* on, and is discarded otherwise
\* a throttle that lets a call through at any time
throttlePassesAlways(elapsed) == elapsed >= 0

throttlePasses(elapsed) == elapsed > ThrottleMs

supportedResizeDirections(p) ==
    IF p.isDraggable THEN {"right", "left"} ELSE {"right"}

\* the candidate of a horizontal position drag, lines 504-505
dragCandidateLeft(dm, p, cw, x) ==
    pxToRelativeWidth(x, cw) - (mainPanelDimensions(dm, p).relativeWidth \div 2)

\* the double of that candidate
dragCandidateLeftDouble(dm, p, cw, x) ==
    [n |-> dragCandidateLeft(dm, p, cw, x),
     d |-> doubleSub(pxToRelativeWidthDouble(x, cw),
                     doubleHalf(relativeWidthDouble(dm, p))).d]

\* the candidate of a vertical position drag, lines 498-500
dragCandidateTop(p, h, y) ==
    pxToRelativeHeight(y, h)
    - (pxToRelativeHeight(initialMainPanelHeight(currentNodePaneType(p)), h) \div 2)


(* -------------------------------- state -------------------------------- *)
VARIABLES
    env,                        \* the environment: the inputs it may deliver
    phase,                      \* "setup" (constructed), "mounted", "unmounted"
    props,                      \* props and slots
    touch,                      \* the device supports touch
    appGridDimensions,          \* uiStore.appGridDimensions: the viewport
    containerWidth,
    dims,                       \* ndvStore.mainPanelDimensions, per panel type
    storage,                    \* the persisted width text, per panel type
    isDragging,
    initialized,
    mainPanelVerticalPosition,
    timers,                     \* pending zero-delay timers, oldest first
    throttleElapsed,            \* ms since throttledOnResize last passed a call on
    dragSession,                \* the pointer session of the drag button
    effects,                    \* what the last handler called, emitted and wrote
    watcher,                    \* the watcher of appGridDimensions at its await
    monitor                     \* the state of one useBreakpoints() instance

\* the state of the panels component
panelVars == <<env, phase, props, touch, appGridDimensions, containerWidth, dims,
               storage, isDragging, initialized, mainPanelVerticalPosition,
               timers, throttleElapsed, dragSession, effects, watcher>>

vars == <<panelVars, monitor>>

\* a call of a handler or function (arg: what it was called with, where a
\* property needs it), an emitted event, a write to the persistent store
CallWith(name, arg) ==
    [kind |-> "call", name |-> name, arg |-> arg, position |-> Undefined,
     windowWidth |-> Undefined, value |-> Null]
Call(name) == CallWith(name, Undefined)
Emit(name, position, windowWidth) ==
    [kind |-> "emit", name |-> name, arg |-> Undefined, position |-> position,
     windowWidth |-> windowWidth, value |-> Null]
\* an event passed on with the name of a node
EmitNode(name, node) ==
    [kind |-> "emit", name |-> name, arg |-> node, position |-> Undefined,
     windowWidth |-> Undefined, value |-> Null]
Write(key, value) ==
    [kind |-> "write", name |-> key, arg |-> Undefined, position |-> Undefined,
     windowWidth |-> Undefined, value |-> value]

\* the effects of one kind among those of the last handler
Calls == {effects[i].name : i \in {j \in DOMAIN effects : effects[j].kind = "call"}}
Emits == SelectSeq(effects, LAMBDA e : e.kind = "emit")
Writes == SelectSeq(effects, LAMBDA e : e.kind = "write")
Handler == IF effects = <<>> THEN "none" ELSE effects[1].name

cur == currentNodePaneType(props)
geo == dims[cur]
\* the last handler was a run of the watcher that has ended with its re-clamp:
\* a run that did not await, or the continuation after the await
WatcherRan ==
    \/ Handler = "nextTick"
    \/ Handler = "watchAppGridDimensions" /\ ~watcher.awaiting

DefaultDimensions ==
    [relativeLeft |-> WidthUnit, leftError |-> 0, relativeWidth |-> WidthUnit,
     relativeRight |-> WidthUnit, rightError |-> 0]

NoSession == [active |-> FALSE, vertical |-> FALSE]

\* no run of the watcher is suspended at `await nextTick()`
NotAwaiting == [awaiting |-> FALSE, dimensions |-> [width |-> 0, height |-> 0]]

\* elapsed time saturates just above the throttle window
Saturated == ((ThrottleMs \div TickMs) + 1) * TickMs
Advance(e, ms) == Min(Saturated, e + ms)

(* --------------------------- useBreakpoints ---------------------------- *)
\* bp testing the MD threshold before the LG threshold
bpMediumFirst(width) ==
    IF width < BREAKPOINT_SM THEN "XS"
    ELSE IF width >= BREAKPOINT_XL THEN "XL"
    ELSE IF width >= BREAKPOINT_MD THEN "MD"
    ELSE IF width >= BREAKPOINT_LG THEN "LG"
    ELSE "SM"

\* the breakpoint of a sampled width
bp(width) ==
    IF width < BREAKPOINT_SM THEN "XS"
    ELSE IF width >= BREAKPOINT_XL THEN "XL"
    ELSE IF width >= BREAKPOINT_LG THEN "LG"
    ELSE IF width >= BREAKPOINT_MD THEN "MD"
    ELSE "SM"

isMobile(width) == width <= BREAKPOINT_SM
\* isTablet including the SM threshold
isTabletFromSM(width) == width >= BREAKPOINT_SM /\ width < BREAKPOINT_LG

isTablet(width) == width > BREAKPOINT_SM /\ width < BREAKPOINT_LG
isDesktop(width) == width >= BREAKPOINT_LG

\* useBreakpoints(): the instance as set up in a window of the given width.
\* owner: the lifecycle of the owning component; listening: onResize is
\* registered for 'resize'; pending, elapsed: the debounce timer and the ms
\* since it was (re)started; burst, samples: the resize notifications of the
\* current burst and the runs of onResizeEnd since it began.
useBreakpoints(innerWidth) ==
    [owner |-> "setup", width |-> innerWidth, innerWidth |-> innerWidth,
     listening |-> FALSE, pending |-> FALSE, elapsed |-> 0, burst |-> 0,
     samples |-> 0, last |-> "none"]

useBreakpoints_onResizeEnd(m) ==
    [m EXCEPT !.width = m.innerWidth, !.samples = m.samples + 1,
              !.last = "onResizeEnd"]

\* useDebounce().callDebounced(onResizeEnd, { debounceTime: 50 }): the call is
\* deferred by the debounce window, which every further call restarts
callDebounced(m) == [m EXCEPT !.pending = TRUE, !.elapsed = 0]

\* onResize calling onResizeEnd at once
useBreakpoints_onResizeUndebounced(m) == useBreakpoints_onResizeEnd(m)

useBreakpoints_onResize(m) == callDebounced(m)

\* what onMounted calls and emits for props p over the storage st, the geometry
\* being dm before and after after it: lines 88-90 inside the guard of lines
\* 84-87, restorePositionData's own calls (lines 476-479) when something is
\* stored, and the emit of line 93
onMountedEffects(dm, after, p, st) ==
    <<Call("onMounted")>>
    \o (IF IsSentinel(mainPanelDimensions(dm, p))
        THEN <<Call("setMainPanelWidth"), Call("setPositions"),
               Call("restorePositionData")>>
             \o (IF Truthy(st[currentNodePaneType(p)])
                 THEN <<Call("setMainPanelWidth"), Call("setPositions")>>
                 ELSE <<>>)
        ELSE <<>>)
    \o <<Emit("init", mainPanelDimensions(after, p).relativeLeft, Undefined)>>

\* what the watcher calls from line 116 on: setMainPanelWidth when the width is
\* below the minimum (line 121), setMainPanelWidth and setPositions when it
\* refits (lines 128-129), and the setPositions of line 133
watchAppGridDimensionsCalls(dm, p, cw, dimensionsWidth) ==
    LET minRelativeWidth == pxToRelativeWidth(MIN_PANEL_WIDTH, cw)
        isBelowMinWidthMainPanel ==
            mainPanelDimensions(dm, p).relativeWidth < minRelativeWidth
        d1 == IF isBelowMinWidthMainPanel
              THEN setMainPanelWidth(dm, p, cw, minRelativeWidth) ELSE dm
    IN  (IF isBelowMinWidthMainPanel
         THEN <<Call("setMainPanelWidth")>> ELSE <<>>)
        \o (IF /\ dimensionsWidth > MIN_WINDOW_WIDTH
                /\ belowMinimumLeft(p, cw, relativeLeftDouble(d1, p))
                /\ belowMaximumRight(p, cw, relativeRightDouble(d1, p))
            THEN <<Call("setMainPanelWidth"), Call("setPositions")>>
            ELSE <<>>)
        \o <<Call("setPositions")>>

(* ------------------------------- actions ------------------------------- *)
\* onMounted emitting init before it sets the geometry
MountEmitsBeforeGeometry ==
    /\ phase = "setup"
    /\ phase' = "mounted"
    /\ dims' = mountGeometry(dims, props, containerWidth, storage)
    /\ timers' = Append(timers, "init")
    /\ effects' =
         <<Call("onMounted"), Emit("init", dims[cur].relativeLeft, Undefined)>>
         \o (IF IsSentinel(geo)
             THEN <<Call("setMainPanelWidth"), Call("setPositions"),
                    Call("restorePositionData")>>
                  \o (IF Truthy(storage[cur])
                      THEN <<Call("setMainPanelWidth"), Call("setPositions")>>
                      ELSE <<>>)
             ELSE <<>>)
    /\ UNCHANGED <<watcher, monitor, env, props, touch, appGridDimensions, containerWidth, storage,
                   isDragging, initialized, mainPanelVerticalPosition,
                   throttleElapsed, dragSession>>

Mount ==
    /\ phase = "setup"
    /\ phase' = "mounted"
    /\ dims' = mountGeometry(dims, props, containerWidth, storage)
    /\ timers' = Append(timers, "init")
    /\ effects' = onMountedEffects(dims, dims', props, storage)
    /\ UNCHANGED <<watcher, monitor, env, props, touch, appGridDimensions, containerWidth, storage,
                   isDragging, initialized, mainPanelVerticalPosition,
                   throttleElapsed, dragSession>>

Unmount ==
    /\ phase = "mounted"
    /\ phase' = "unmounted"
    /\ dragSession' = NoSession
    /\ effects' = <<Call("onBeforeUnmount")>>
    /\ UNCHANGED <<watcher, monitor, env, props, touch, appGridDimensions, containerWidth, dims,
                   storage, isDragging, initialized, mainPanelVerticalPosition,
                   timers, throttleElapsed>>

\* a zero-delay timer runs: the one of onMounted or the one of onDragEnd
TimerFire ==
    /\ timers # <<>>
    /\ timers' = Tail(timers)
    /\ IF Head(timers) = "init"
       THEN /\ initialized' = TRUE
            /\ effects' = <<Call("initTimer")>>
            /\ UNCHANGED isDragging
       ELSE /\ isDragging' = FALSE
            /\ effects' = <<Call("dragEndTimer"),
                            Emit("dragend", geo.relativeLeft, containerWidth)>>
            /\ UNCHANGED initialized
    /\ UNCHANGED <<watcher, monitor, env, phase, props, touch, appGridDimensions, containerWidth,
                   dims, storage, mainPanelVerticalPosition, throttleElapsed,
                   dragSession>>

\* the viewport changes while no #ndv element exists: the watcher runs without
\* awaiting, lines 105-108 and 113-133
ViewportChange(dimensions) ==
    /\ phase = "mounted"
    /\ appGridDimensions' = dimensions
    /\ containerWidth' = dimensions.width
    /\ dims' = reclampOnViewportChange(dims, props, dimensions.width, dimensions.width)
    /\ effects' = <<Call("watchAppGridDimensions")>>
                   \o watchAppGridDimensionsCalls(dims, props, dimensions.width,
                                                  dimensions.width)
    /\ UNCHANGED <<watcher, monitor, env, phase, props, touch, storage, isDragging, initialized,
                   mainPanelVerticalPosition, timers, throttleElapsed,
                   dragSession>>

\* the viewport changes while the #ndv element exists: the watcher runs up to
\* `await nextTick()`, lines 107-110
ViewportChangeStart(dimensions) ==
    /\ phase = "mounted"
    /\ ~watcher.awaiting
    /\ appGridDimensions' = dimensions
    /\ watcher' = [awaiting |-> TRUE, dimensions |-> dimensions]
    /\ effects' = <<Call("watchAppGridDimensions")>>
    /\ UNCHANGED <<monitor, env, phase, props, touch, containerWidth, dims, storage,
                   isDragging, initialized, mainPanelVerticalPosition, timers,
                   throttleElapsed, dragSession>>

\* the watcher continues after the await, lines 111-133; ndvWidth is the width
\* of the #ndv element
WatcherResume(ndvWidth) ==
    /\ watcher.awaiting
    /\ watcher' = NotAwaiting
    /\ containerWidth' = ndvWidth
    /\ dims' = reclampOnViewportChange(dims, props, ndvWidth,
                                       watcher.dimensions.width)
    /\ effects' = <<Call("nextTick")>>
                   \o watchAppGridDimensionsCalls(dims, props, ndvWidth,
                                                  watcher.dimensions.width)
    /\ UNCHANGED <<monitor, env, phase, props, touch, appGridDimensions, storage,
                   isDragging, initialized, mainPanelVerticalPosition, timers,
                   throttleElapsed, dragSession>>

\* an event loop that starts a task while a continuation is pending
EventLoopTaskAnyTime(A) == A

\* a task of the event loop (the handler of an event, a timer): it starts only
\* when no continuation of an awaited promise is pending
EventLoopTask(A) == ~watcher.awaiting /\ A

\* the floating nodes ask for another node: onSwitchSelectedNode, line 339,
\* passes the event on
SwitchSelectedNode(node) ==
    /\ phase = "mounted"
    /\ effects' = <<Call("onSwitchSelectedNode"), EmitNode("switchSelectedNode", node)>>
    /\ UNCHANGED <<watcher, monitor, env, phase, props, touch, appGridDimensions,
                   containerWidth, dims, storage, isDragging, initialized,
                   mainPanelVerticalPosition, timers, throttleElapsed, dragSession>>

\* a resize move of the resize wrapper: onResizeThrottle
ResizeMove(direction, x, width) ==
    /\ phase = "mounted"
    /\ cur # "unknown"
    /\ direction \in supportedResizeDirections(props)
    /\ LET invoked == initialized /\ throttlePasses(throttleElapsed)
           inBounds == onResizeAccepts(props, containerWidth, direction, x, width)
       IN  /\ throttleElapsed' = IF invoked THEN 0 ELSE throttleElapsed
           /\ dims' = IF invoked
                      THEN onResize(dims, props, containerWidth, direction, x, width)
                      ELSE dims
           /\ effects' =
                <<CallWith("onResizeThrottle",
                           IF initialized /\ inBounds
                           THEN pxToRelativeWidth(width, containerWidth)
                           ELSE Undefined)>>
                \o (IF invoked THEN <<Call("onResize")>> ELSE <<>>)
                \o (IF invoked /\ inBounds
                    THEN <<Call("setMainPanelWidth"), Call("setPositions")>>
                    ELSE <<>>)
    /\ UNCHANGED <<watcher, monitor, env, phase, props, touch, appGridDimensions, containerWidth,
                   storage, isDragging, initialized, mainPanelVerticalPosition,
                   timers, dragSession>>

ResizeEnd ==
    /\ phase = "mounted"
    /\ cur # "unknown"
    /\ storage' = storePositionData(dims, props, storage)
    /\ effects' = <<Call("onResizeEnd"), Call("storePositionData"),
                    Write(cur, storage'[cur])>>
    /\ UNCHANGED <<watcher, monitor, env, phase, props, touch, appGridDimensions, containerWidth,
                   dims, isDragging, initialized, mainPanelVerticalPosition,
                   timers, throttleElapsed, dragSession>>

\* the drag button exists only for a draggable panel with visible side panels
DragButtonShown == props.isDraggable /\ ~props.hideInputAndOutput

DragStart ==
    /\ phase = "mounted"
    /\ DragButtonShown
    /\ ~dragSession.active
    /\ dragSession' = [active |-> TRUE,
                       vertical |-> useVerticalLayout(appGridDimensions, touch)]
    /\ isDragging' = TRUE
    /\ effects' = <<Call("onDragStart"),
                    Emit("dragstart", geo.relativeLeft, Undefined)>>
    /\ UNCHANGED <<watcher, monitor, env, phase, props, touch, appGridDimensions, containerWidth,
                   dims, storage, initialized, mainPanelVerticalPosition, timers,
                   throttleElapsed>>

\* onDrag applying the pointer to both axes in either layout
DragMovesBothAxes(x, y) ==
    /\ phase = "mounted"
    /\ dragSession.active
    /\ mainPanelVerticalPosition' =
         setVerticalPositions(props, appGridDimensions.height,
             dragCandidateTop(props, appGridDimensions.height, y))
    /\ dims' = setPositions(dims, props, containerWidth,
                    dragCandidateLeftDouble(dims, props, containerWidth, x))
    /\ effects' = <<Call("onDrag"),
                    Call(IF useVerticalLayout(appGridDimensions, touch)
                         THEN "setVerticalPositions" ELSE "setPositions")>>
    /\ UNCHANGED <<watcher, monitor, env, phase, props, touch, appGridDimensions, containerWidth,
                   storage, isDragging, initialized, timers, throttleElapsed,
                   dragSession>>

Drag(x, y) ==
    /\ phase = "mounted"
    /\ dragSession.active
    /\ IF useVerticalLayout(appGridDimensions, touch)
       THEN /\ mainPanelVerticalPosition' =
                 setVerticalPositions(props, appGridDimensions.height,
                     dragCandidateTop(props, appGridDimensions.height, y))
            /\ effects' = <<Call("onDrag"), Call("setVerticalPositions")>>
            /\ UNCHANGED dims
       ELSE /\ dims' = setPositions(dims, props, containerWidth,
                           dragCandidateLeftDouble(dims, props, containerWidth, x))
            /\ effects' = <<Call("onDrag"), Call("setPositions")>>
            /\ UNCHANGED mainPanelVerticalPosition
    /\ UNCHANGED <<watcher, monitor, env, phase, props, touch, appGridDimensions, containerWidth,
                   storage, isDragging, initialized, timers, throttleElapsed,
                   dragSession>>

DragEnd ==
    /\ phase = "mounted"
    /\ dragSession.active
    /\ Len(timers) < MaxTimers
    /\ dragSession' = NoSession
    /\ timers' = Append(timers, "dragend")
    /\ storage' = storePositionData(dims, props, storage)
    /\ effects' = <<Call("onDragEnd"), Call("storePositionData"),
                    Write(cur, storage'[cur])>>
    /\ UNCHANGED <<watcher, monitor, env, phase, props, touch, appGridDimensions, containerWidth,
                   dims, isDragging, initialized, mainPanelVerticalPosition,
                   throttleElapsed>>

\* ndvEventBus 'setPositionByName'
\* setPositionByName that also persists the width
SetPositionByNamePersists(position) ==
    /\ phase = "mounted"
    /\ dims' = setPositionByName(dims, props, containerWidth, position)
    /\ storage' = storePositionData(dims', props, storage)
    /\ effects' = <<Call("setPositionByName"), Call("setPositions"),
                    Call("storePositionData"), Write(cur, storage'[cur])>>
    /\ UNCHANGED <<watcher, monitor, env, phase, props, touch, appGridDimensions, containerWidth,
                   isDragging, initialized, mainPanelVerticalPosition,
                   timers, throttleElapsed, dragSession>>

SetPositionByName(position) ==
    /\ phase = "mounted"
    /\ dims' = setPositionByName(dims, props, containerWidth, position)
    /\ effects' = <<Call("setPositionByName"), Call("setPositions")>>
    /\ UNCHANGED <<watcher, monitor, env, phase, props, touch, appGridDimensions, containerWidth,
                   storage, isDragging, initialized, mainPanelVerticalPosition,
                   timers, throttleElapsed, dragSession>>

\* time passes: env.tickMs milliseconds
Tick ==
    /\ throttleElapsed <= ThrottleMs
    /\ throttleElapsed' = Advance(throttleElapsed, env.tickMs)
    /\ UNCHANGED <<watcher, monitor, env, phase, props, touch, appGridDimensions, containerWidth,
                   dims, storage, isDragging, initialized,
                   mainPanelVerticalPosition, timers, dragSession, effects>>

AnyViewportChange == \E dimensions \in env.viewports : ViewportChange(dimensions)
AnyViewportChangeStart == \E dimensions \in env.viewports : ViewportChangeStart(dimensions)
AnyWatcherResume == \E ndvWidth \in env.ndvWidths : WatcherResume(ndvWidth)
AnySwitchSelectedNode == \E node \in NodeNames : SwitchSelectedNode(node)
AnyResizeMove ==
    \E direction \in {"left", "right"}, x \in env.xs, width \in env.resizeWidths :
        ResizeMove(direction, x, width)
AnyDrag == \E x \in env.xs, y \in env.ys : Drag(x, y)
AnySetPositionByName ==
    \E position \in {"minLeft", "maxRight", "initial"} : SetPositionByName(position)

\* The geometry operations: mounting, viewport changes, resize moves, position
\* drags (of a drag that is not released) and setPositionByName.
Next ==
    \/ Mount
    \/ TimerFire
    \/ AnyViewportChange
    \/ AnyResizeMove
    \/ DragStart
    \/ AnyDrag
    \/ AnySetPositionByName
    \/ Tick

(* ----------------------------- specifications -------------------------- *)
\* what an earlier session may have left in the store for a panel type
InitStored == {Null, Malformed, toString(pxToRelativeWidth(400, 1920))}

\* the panels component after construction, for an environment e and initial
\* props in ps
InitPanels(e, ps) ==
    /\ env = e
    /\ phase = "setup"
    /\ props \in ps
    /\ touch \in e.touch
    /\ appGridDimensions \in e.viewports
    /\ containerWidth = appGridDimensions.width
    /\ dims = [t \in PanelTypes |-> DefaultDimensions]
    /\ \E s \in e.stored : storage = [t \in PanelTypes |-> s]
    /\ isDragging = FALSE
    /\ initialized = FALSE
    /\ mainPanelVerticalPosition = 0
    /\ timers = <<>>
    /\ throttleElapsed = Saturated
    /\ dragSession = NoSession
    /\ effects = <<>>
    /\ watcher = NotAwaiting

\* the state after construction; the panels component owns no useBreakpoints()
\* instance, the one beside it stays as set up
InitWith(e, ps) ==
    /\ InitPanels(e, ps)
    /\ monitor = useBreakpoints(INNER_WIDTH)

P(isDraggable, nodeType, hasInput) ==
    [isDraggable |-> isDraggable, hideInputAndOutput |-> FALSE,
     nodeType |-> nodeType, hasInput |-> hasInput]

\* one props value for every panel type
PropsPerType ==
    {P(TRUE, "plain", TRUE), P(TRUE, "wide", TRUE), P(TRUE, "null", TRUE),
     P(FALSE, "wide", TRUE), P(TRUE, "plain", FALSE)}

\* The geometry environment: every pointer position and width.
GeometryEnv ==
    [touch |-> {FALSE}, viewports |-> Viewports,
     ndvWidths |-> {}, stored |-> {Null},
     xs |-> {20, 640, 1800}, ys |-> {700},
     resizeWidths |-> {300, 900}, tickMs |-> Saturated]

Init == InitWith(GeometryEnv, PropsPerType)
Spec == Init /\ [][Next]_vars

\* a draggable panel with and without an input region
PropsDraggable == {P(TRUE, "plain", TRUE), P(TRUE, "plain", FALSE)}

\* The timed environment: moves arrive at any time, TickMs apart or at once;
\* an earlier session may have persisted a width.
TimedEnv ==
    [touch |-> {FALSE},
     viewports |-> {v \in Viewports : v.width >= 1000},
     ndvWidths |-> {},
     stored |-> {Null, toString(pxToRelativeWidth(400, 1920))},
     xs |-> {20, 640}, ys |-> {700}, resizeWidths |-> {400, 500},
     tickMs |-> TickMs]

\* Resize moves and position drags in time, with the throttle window.
NextTimed ==
    \/ Mount
    \/ TimerFire
    \/ AnyViewportChange
    \/ AnyResizeMove
    \/ ResizeEnd
    \/ DragStart
    \/ AnyDrag
    \/ Tick

InitTimed == InitWith(TimedEnv, {P(TRUE, "plain", TRUE)})
SpecTimed == InitTimed /\ [][NextTimed]_vars

\* The session environment: drag sessions with their deferred steps, in every
\* interleaving with viewport changes and unmounting.
SessionEnv ==
    [touch |-> {FALSE, TRUE}, viewports |-> Viewports, ndvWidths |-> {},
     stored |-> {Null},
     xs |-> {20, 640}, ys |-> {100, 700}, resizeWidths |-> {},
     tickMs |-> TickMs]

NextSession ==
    \/ Mount
    \/ Unmount
    \/ TimerFire
    \/ AnyViewportChange
    \/ DragStart
    \/ AnyDrag
    \/ DragEnd

InitSession == InitWith(SessionEnv, PropsDraggable)
SpecSession == InitSession /\ [][NextSession]_vars

\* a pending zero-delay timer runs: the event loop does not starve it
SpecSessionFair == SpecSession /\ WF_vars(TimerFire)

(* ------------------------------ properties ----------------------------- *)
Abs(v) == IF v < 0 THEN 0 - v ELSE v

\* the horizontal geometry d sums to 1 within 1e-6
SumsToOne(d) ==
    Abs(d.relativeLeft + d.relativeWidth + d.relativeRight - WidthUnit)
        <= WidthUnit \div 1000000

\* the bounds of the current container width hold for the current geometry
WithinBounds ==
    /\ geo.relativeLeft >= minimumLeftPosition(props, containerWidth)
    /\ geo.relativeRight >= maximumRightPosition(props, containerWidth)

\* the current width leaves room for both bounds
WidthFits ==
    geo.relativeWidth + minimumLeftPosition(props, containerWidth)
        + maximumRightPosition(props, containerWidth) <= WidthUnit

\* the last handler was a position drag or a resize move that onResize accepted
AcceptedMove ==
    /\ Handler \in {"onDrag", "onResizeThrottle"}
    /\ "setPositions" \in Calls

\* C1: once mounted, the current panel type's relativeLeft + relativeWidth +
\* relativeRight is 1 (within 1e-6) between any two handlers, for every panel
\* type
C1_SumIsOne == phase = "mounted" => SumsToOne(geo)

\* C2: every accepted horizontal position drag or resize move leaves
\* relativeLeft >= minimumLeftPosition and relativeRight >= maximumRightPosition
C2_AcceptedMoveWithinBounds == AcceptedMove => WithinBounds

\* the candidate left of a drag to x lies outside the bounds
DragCandidateOutOfBounds(x) ==
    LET c == dragCandidateLeft(dims, props, containerWidth, x)
    IN  \/ c < minimumLeftPosition(props, containerWidth)
        \/ WidthUnit - c - geo.relativeWidth
               < maximumRightPosition(props, containerWidth)

\* the pointer of a resize move is at or beyond the bound of its direction, or
\* the width it carries is not above the minimum panel width
ResizeOutOfBounds(direction, x, width) ==
    \/ direction = "left"
       /\ x * WidthUnit <= minimumLeftPosition(props, containerWidth) * containerWidth
    \/ direction = "right"
       /\ (containerWidth - x) * WidthUnit
              <= maximumRightPosition(props, containerWidth) * containerWidth
    \/ width <= MIN_PANEL_WIDTH

HorizontalDrag(x) ==
    /\ ~useVerticalLayout(appGridDimensions, touch)
    /\ \E y \in env.ys : Drag(x, y)

\* C3: a position drag or a resize move whose candidate violates the
\* minimum-left or maximum-right bound leaves relativeLeft, relativeWidth and
\* relativeRight as they were
C3_OutOfBoundsMoveIsNoOp ==
    [][/\ Handler' = "onDrag"
          => \A x \in env.xs :
               (HorizontalDrag(x) /\ DragCandidateOutOfBounds(x)) => dims' = dims
       /\ (Handler' = "onResizeThrottle" /\ dims' # dims)
          => \A direction \in {"left", "right"}, x \in env.xs,
                width \in env.resizeWidths :
               ResizeOutOfBounds(direction, x, width)
               => ~ResizeMove(direction, x, width)]_vars

\* C10: setPositionByName leaves isDragging alone, emits nothing, writes
\* nothing to persistence and changes only the position (relativeLeft,
\* relativeRight) of the current panel type
C10_SetPositionByNameBypassesSession ==
    [][Handler' = "setPositionByName"
       => \A position \in {"minLeft", "maxRight", "initial"} :
          SetPositionByName(position)
          => /\ isDragging' = isDragging
             /\ dragSession' = dragSession
             /\ storage' = storage
             /\ Emits' = <<>>
             /\ Writes' = <<>>
             /\ geo'.relativeWidth = geo.relativeWidth
             /\ \A t \in PanelTypes \ {cur} : dims'[t] = dims[t]]_vars

\* setPositionByName moved the panel during a drag
C10_Witness ==
    /\ Handler = "setPositionByName"
    /\ isDragging
    /\ dragSession.active
    /\ geo.relativeLeft = minimumLeftPosition(props, containerWidth)


\* the last handler set the main panel's width
WidthWasSet ==
    \/ Handler \in {"onMounted", "onResizeThrottle"} /\ "setMainPanelWidth" \in Calls
    \/ WatcherRan

\* C4: after any operation that sets the main panel's width (mount, restore,
\* accepted resize move, viewport resize) the width is at least MIN_PANEL_WIDTH
\* px for the current container width
C4_WidthAtLeastMinimum ==
    WidthWasSet => geo.relativeWidth * containerWidth >= MIN_PANEL_WIDTH * WidthUnit

\* C5: once the moves of a continuous resize stop (the throttle window of the
\* last in-bounds move is over and no other handler ran since), relativeWidth
\* is the width that move carried
C5_LatestMoveWins ==
    (/\ Handler = "onResizeThrottle"
     /\ effects[1].arg # Undefined
     /\ throttleElapsed > ThrottleMs)
    => geo.relativeWidth = effects[1].arg

\* C6: a resize move changes the geometry only when more than ThrottleMs have
\* passed since onResize last ran, and then restarts the window; every position
\* drag move updates the geometry (horizontal or vertical) once, whatever the
\* time since the last update
C6_ResizeThrottledDragImmediate ==
    [][/\ Handler' = "onResizeThrottle"
          => \A direction \in {"left", "right"}, x \in env.xs,
                width \in env.resizeWidths :
            (ResizeMove(direction, x, width) /\ "setPositions" \in Calls')
            => (throttleElapsed > ThrottleMs /\ throttleElapsed' = 0)
       /\ Handler' = "onDrag"
          => \A x \in env.xs, y \in env.ys :
            Drag(x, y)
            => /\ Cardinality(Calls' \cap {"setPositions", "setVerticalPositions"}) = 1
               /\ Len(effects') = 2
               /\ throttleElapsed' = throttleElapsed]_vars

\* an in-bounds resize move arrived inside the throttle window and was discarded
C6_Witness ==
    /\ Handler = "onResizeThrottle"
    /\ initialized
    /\ effects[1].arg # Undefined
    /\ "onResize" \notin Calls
    /\ throttleElapsed <= ThrottleMs

DragEndTimerFires == TimerFire /\ Head(timers) = "dragend"

\* the deferred step of a drag-end has not run yet
DragEndPending == \E i \in DOMAIN timers : timers[i] = "dragend"

\* C7: drag-start sets isDragging and emits dragstart with the current
\* relativeLeft; after a drag-end isDragging stays true until the deferred step
\* of that drag-end runs; the step sets isDragging to false and emits exactly
\* one dragend carrying the relativeLeft and containerWidth of that moment; no
\* other step emits dragend; every drag-end is eventually followed by the
\* emission
C7_DragSessionProtocol ==
    /\ [][/\ DragStart
             => /\ isDragging'
                /\ Emits' = <<Emit("dragstart", geo.relativeLeft, Undefined)>>
          /\ DragEnd => (isDragging' /\ Emits' = <<>>)
          /\ DragEndPending' => isDragging'
          /\ DragEndTimerFires
             => /\ ~isDragging'
                /\ Emits' = <<Emit("dragend", geo'.relativeLeft, containerWidth')>>
          /\ (\E i \in DOMAIN Emits' : Emits'[i].name = "dragend"
              /\ effects' # effects)
             => DragEndTimerFires]_vars
    /\ (Handler = "onDragEnd") ~> (Handler = "dragEndTimer")

\* C8 as stated: a persistence write caused by a drag-end does not happen while
\* isDragging is still true
C8_WriteAfterDeferredStep ==
    (Handler \in {"onDragEnd", "dragEndTimer"} /\ Writes # <<>>) => ~isDragging

\* C8 amended: the drag-end handler itself writes the current relativeWidth
\* under the current panel type's key, before its deferred step has run; the
\* deferred step writes nothing
C8_WriteAtDragEnd ==
    /\ Handler = "onDragEnd"
       => /\ Writes = <<Write(cur, toString(geo.relativeWidth))>>
          /\ storage[cur] = toString(geo.relativeWidth)
          /\ timers # <<>> /\ timers[Len(timers)] = "dragend"
    /\ Handler = "dragEndTimer" => Writes = <<>>

\* drag-end has persisted a width while isDragging is still true
C8_Witness ==
    /\ Handler = "onDragEnd"
    /\ isDragging
    /\ Len(Writes) = 1
    /\ storage[cur] = toString(geo.relativeWidth)
    /\ geo.relativeWidth = pxToRelativeWidth(MAIN_NODE_PANEL_WIDTH, containerWidth)

\* C9: a drag move is interpreted in the orientation in force at drag-start
C9_OrientationFrozen ==
    (Handler = "onDrag" /\ dragSession.active)
    => (("setVerticalPositions" \in Calls) <=> dragSession.vertical)

(* ----------------------- the breakpoint monitor ------------------------ *)
\* the owner of the useBreakpoints() instance is mounted
BreakpointsMount ==
    /\ monitor.owner = "setup"
    /\ monitor' = [monitor EXCEPT !.owner = "mounted", !.listening = TRUE,
                                  !.last = "onMounted"]
    /\ UNCHANGED panelVars

\* onBeforeUnmount that keeps the listener
BreakpointsUnmountKeepsListener ==
    /\ monitor.owner = "mounted"
    /\ monitor' = [monitor EXCEPT !.owner = "unmounted",
                                  !.last = "onBeforeUnmount"]
    /\ UNCHANGED panelVars

BreakpointsUnmount ==
    /\ monitor.owner = "mounted"
    /\ monitor' = [monitor EXCEPT !.owner = "unmounted", !.listening = FALSE,
                                  !.last = "onBeforeUnmount"]
    /\ UNCHANGED panelVars

\* the window is resized to width w; a registered listener is notified
WindowResize(w) ==
    /\ w # monitor.innerWidth
    /\ monitor.pending => monitor.burst < MaxBurst
    /\ LET resized == [monitor EXCEPT !.innerWidth = w, !.last = "resize"]
           counted == [resized EXCEPT
                          !.burst = IF monitor.pending THEN monitor.burst + 1 ELSE 1,
                          !.samples = IF monitor.pending THEN monitor.samples ELSE 0]
       IN  monitor' = IF monitor.listening
                      THEN useBreakpoints_onResize(counted)
                      ELSE resized
    /\ UNCHANGED panelVars

\* time passes while the debounce timer is pending
DebounceTick ==
    /\ monitor.pending
    /\ monitor.elapsed < DebounceMs
    /\ monitor' = [monitor EXCEPT
                      !.elapsed = Min(DebounceMs, monitor.elapsed + DebounceTickMs)]
    /\ UNCHANGED panelVars

\* the debounce timer runs the deferred onResizeEnd
DebounceFire ==
    /\ monitor.pending
    /\ monitor.elapsed >= DebounceMs
    /\ monitor' = [useBreakpoints_onResizeEnd(monitor) EXCEPT !.pending = FALSE]
    /\ UNCHANGED panelVars

\* window widths around every threshold
MonitorWidths == {375, 767, 768, 769, 992, 1000, 1200, 1400, 1920}

AnyWindowResize == \E w \in MonitorWidths : WindowResize(w)

NextMonitor ==
    \/ BreakpointsMount
    \/ BreakpointsUnmount
    \/ AnyWindowResize
    \/ DebounceTick
    \/ DebounceFire

MonitorEnv ==
    [touch |-> {FALSE}, viewports |-> {v \in Viewports : v.width = 1000},
     ndvWidths |-> {}, stored |-> {Null}, xs |-> {}, ys |-> {},
     resizeWidths |-> {}, tickMs |-> TickMs]

\* useBreakpoints() is set up in a window of any width
InitMonitor ==
    /\ InitPanels(MonitorEnv, {P(TRUE, "plain", TRUE)})
    /\ \E w \in MonitorWidths : monitor = useBreakpoints(w)

SpecMonitor == InitMonitor /\ [][NextMonitor]_vars

(* ------------------------ the store across mounts ---------------------- *)
\* the detail view is opened again: a new instance of the component is set up
\* and mounted, for props p, over the store and the storage of the page
Remount(p) ==
    /\ phase = "unmounted"
    /\ timers = <<>>
    /\ phase' = "mounted"
    /\ props' = p
    /\ containerWidth' = appGridDimensions.width
    /\ isDragging' = FALSE
    /\ initialized' = FALSE
    /\ mainPanelVerticalPosition' = 0
    /\ throttleElapsed' = Saturated
    /\ dims' = mountGeometry(dims, p, containerWidth', storage)
    /\ timers' = <<"init">>
    /\ effects' = onMountedEffects(dims, dims', p, storage)
    /\ UNCHANGED <<watcher, monitor, env, touch, appGridDimensions, storage, dragSession>>

\* the page is loaded again: the store starts from its defaults, pending
\* timers are gone, the persistent storage is kept
Reload(p, dimensions) ==
    /\ phase # "setup"
    /\ phase' = "setup"
    /\ props' = p
    /\ appGridDimensions' = dimensions
    /\ containerWidth' = dimensions.width
    /\ dims' = [t \in PanelTypes |-> DefaultDimensions]
    /\ isDragging' = FALSE
    /\ initialized' = FALSE
    /\ mainPanelVerticalPosition' = 0
    /\ timers' = <<>>
    /\ throttleElapsed' = Saturated
    /\ dragSession' = NoSession
    /\ effects' = <<>>
    /\ UNCHANGED <<watcher, monitor, env, touch, storage>>

\* the parent passes other props (another node is selected); the component has
\* no watcher on them
PropsChange(p) ==
    /\ phase = "mounted"
    /\ p # props
    /\ props' = p
    /\ effects' = <<Call("propsChange")>>
    /\ UNCHANGED <<watcher, monitor, env, phase, touch, appGridDimensions, containerWidth, dims,
                   storage, isDragging, initialized, mainPanelVerticalPosition,
                   timers, throttleElapsed, dragSession>>

\* the props of the nodes that are opened one after the other
StoreProps == {P(TRUE, "plain", TRUE), P(TRUE, "wide", TRUE)}

AnyRemount == \E p \in StoreProps : Remount(p)
AnyReload == \E p \in StoreProps, dimensions \in env.viewports : Reload(p, dimensions)
AnyPropsChange == \E p \in StoreProps : PropsChange(p)

\* The store environment: the storage may hold text that is not a number.
StoreEnv ==
    [touch |-> {FALSE},
     viewports |-> {v \in Viewports : v.width = 1000},
     ndvWidths |-> {},
     stored |-> {Null, Malformed, Prefixed(pxToRelativeWidth(500, 1000))},
     xs |-> {640}, ys |-> {700}, resizeWidths |-> {400, 900},
     tickMs |-> Saturated]

\* Mounting, unmounting, opening again and reloading, with resizes that are
\* persisted at their end.
NextStore ==
    \/ Mount
    \/ Unmount
    \/ AnyRemount
    \/ AnyReload
    \/ AnyPropsChange
    \/ TimerFire
    \/ AnyResizeMove
    \/ ResizeEnd

InitStore == InitWith(StoreEnv, StoreProps)
SpecStore == InitStore /\ [][NextStore]_vars

\* onMounted has restored a persisted width w that is valid for the container
RestoredValidWidth ==
    /\ Handler = "onMounted"
    /\ "restorePositionData" \in Calls
    /\ storage[cur].kind = "number"
    /\ storage[cur].num >= pxToRelativeWidth(MIN_PANEL_WIDTH, containerWidth)
    /\ storage[cur].num <= WidthUnit

\* C12 as stated: the width written at resize-end reads back unchanged, and
\* restoring a valid width w into a fresh geometry gives relativeWidth = w and
\* relativeLeft = the initial-left position computed for w
C12_RoundTripInitialLeft ==
    /\ Handler = "onResizeEnd" => parseFloat(storage[cur]) = geo.relativeWidth
    /\ RestoredValidWidth
       => /\ geo.relativeWidth = parseFloat(storage[cur])
          /\ geo.relativeLeft
               = getInitialLeftPosition(props, containerWidth, geo.relativeWidth)

\* C12 amended: the width reads back unchanged and is restored as
\* relativeWidth; for w below 1, relativeLeft is the initial-left position for
\* w as setPositions clamps it: the left bound if it lies left of it, else the
\* position that keeps the right bound if it would break it, else itself
C12_RoundTripClampedLeft ==
    /\ Handler = "onResizeEnd" => parseFloat(storage[cur]) = geo.relativeWidth
    /\ RestoredValidWidth => geo.relativeWidth = parseFloat(storage[cur])
    /\ (RestoredValidWidth /\ parseFloat(storage[cur]) < WidthUnit)
       => LET w == parseFloat(storage[cur])
              i == getInitialLeftPosition(props, containerWidth, w)
              minLeft == minimumLeftPosition(props, containerWidth)
              maxRight == maximumRightPosition(props, containerWidth)
          IN  /\ geo.relativeWidth = w
              /\ geo.relativeLeft =
                   IF i < minLeft THEN minLeft
                   ELSE IF WidthUnit - i - w < maxRight
                        THEN WidthUnit - w - maxRight
                        ELSE i

\* a resized width was restored after a reload, centred and inside the bounds
C12_Witness ==
    /\ RestoredValidWidth
    /\ geo.relativeWidth = pxToRelativeWidth(400, containerWidth)
    /\ geo.relativeLeft
         = getInitialLeftPosition(props, containerWidth, geo.relativeWidth)
    /\ geo.relativeLeft > minimumLeftPosition(props, containerWidth)

\* C13: a handler that runs while the panel type is T leaves the geometry and
\* the persisted width of every other panel type as they were
C13_OtherTypesUntouched ==
    [][effects' # <<>>
       => \A t \in PanelTypes \ {cur'} :
            dims'[t] = dims[t] /\ storage'[t] = storage[t]]_vars

\* a resize of one panel type was persisted while another type keeps its own
\* geometry and its own persisted width
C13_Witness ==
    /\ Handler = "onResizeEnd"
    /\ cur = "wide"
    /\ ~IsSentinel(dims["regular"])
    /\ ~IsSentinel(dims["wide"])
    /\ storage["regular"] = toString(pxToRelativeWidth(400, containerWidth))
    /\ storage["wide"] = toString(pxToRelativeWidth(900, containerWidth))
    /\ dims["regular"].relativeWidth # dims["wide"].relativeWidth

\* C14: mounting initialises and restores only a geometry that is the
\* sentinel; a geometry set earlier in the session is left as it is, whatever
\* is persisted
C14_MountKeepsSetGeometry ==
    [][Handler' = "onMounted"
       => /\ \A p \in StoreProps :
               (Remount(p) /\ ~IsSentinel(mainPanelDimensions(dims, p)))
               => /\ dims' = dims
                  /\ Calls' = {"onMounted"}
          /\ (Calls' \cap {"setMainPanelWidth", "setPositions",
                           "restorePositionData"} # {})
             => IsSentinel(dims[cur'])]_vars

\* the component was mounted again over a geometry set earlier, while a
\* different width is persisted for its panel type
C14_Witness ==
    /\ Handler = "onMounted"
    /\ Calls = {"onMounted"}
    /\ storage[cur].kind = "number"
    /\ parseFloat(storage[cur]) # geo.relativeWidth
    /\ ~IsSentinel(geo)

\* the geometry onMounted gives a never-positioned panel when nothing is
\* persisted
DefaultGeometry(p, cw) ==
    mainPanelDimensions(
        mountGeometry([t \in PanelTypes |-> DefaultDimensions], p, cw,
                      [t \in PanelTypes |-> Null]), p)

\* C15: restoring a persisted value that is not the text of a number gives the
\* default geometry of the panel type and container width
C15_MalformedIsAbsent ==
    (/\ Handler = "onMounted"
     /\ "restorePositionData" \in Calls
     /\ storage[cur].kind \in {"malformed", "prefixed"})
    => geo = DefaultGeometry(props, containerWidth)

\* C16: the sampled width changes only when the debounce timer runs
\* onResizeEnd, DebounceMs after the last notification of a burst; that run is
\* the only one of the burst and applies the window width of that moment;
\* while the window is open nothing is applied
C16_BurstSampledOnce ==
    [][/\ monitor'.samples > monitor.samples
          => /\ monitor.pending
             /\ monitor.elapsed >= DebounceMs
             /\ ~monitor'.pending
             /\ monitor'.samples = 1
             /\ monitor'.width = monitor.innerWidth
       /\ monitor'.width # monitor.width => monitor'.samples > monitor.samples
       /\ (monitor.pending /\ monitor.elapsed < DebounceMs)
          => monitor'.width = monitor.width]_vars

\* a burst of three notifications ended in one sample of the last width
C16_Witness ==
    /\ monitor.last = "onResizeEnd"
    /\ monitor.burst = 3
    /\ monitor.samples = 1
    /\ monitor.width = monitor.innerWidth
    /\ monitor.width = 375

\* C17: the resize listener is registered exactly while the owner is mounted,
\* and a resize of the window after unmount changes nothing of the monitor
\* but the window width it would read
C17_ListenerWhileMounted ==
    /\ [](monitor.listening <=> monitor.owner = "mounted")
    /\ [][(monitor.owner = "unmounted"
           /\ monitor'.innerWidth # monitor.innerWidth)
          => /\ monitor'.pending = monitor.pending
             /\ monitor'.elapsed = monitor.elapsed
             /\ monitor'.burst = monitor.burst
             /\ monitor'.width = monitor.width]_vars

\* the window was resized after unmount and the sampled width stays behind
C17_Witness ==
    /\ monitor.owner = "unmounted"
    /\ monitor.last = "resize"
    /\ ~monitor.listening
    /\ ~monitor.pending
    /\ monitor.burst = 0
    /\ monitor.width # monitor.innerWidth

\* C18: once the component is unmounted none of its deferred callbacks runs:
\* the last thing that ran is never a timer of onMounted or of onDragEnd
C18_NoCallbackAfterUnmount ==
    phase = "unmounted" => Handler \notin {"initTimer", "dragEndTimer"}

Breakpoints == <<"XS", "SM", "MD", "LG", "XL">>
Rank(b) == CHOOSE i \in DOMAIN Breakpoints : Breakpoints[i] = b

\* C19: bp gives one of XS, SM, MD, LG, XL, by the thresholds (XS below SM, SM
\* up to MD, MD up to LG, LG up to XL, XL from XL), and a larger width never
\* gives a smaller breakpoint; 375 is XS, 1000 is MD, 1400 is LG
C19_ClassifyByThresholds ==
    \A w \in {monitor.width, monitor.innerWidth} :
        /\ \E i \in DOMAIN Breakpoints : bp(w) = Breakpoints[i]
        /\ bp(w) = "XS" <=> w < BREAKPOINT_SM
        /\ bp(w) = "SM" <=> (BREAKPOINT_SM <= w /\ w < BREAKPOINT_MD)
        /\ bp(w) = "MD" <=> (BREAKPOINT_MD <= w /\ w < BREAKPOINT_LG)
        /\ bp(w) = "LG" <=> (BREAKPOINT_LG <= w /\ w < BREAKPOINT_XL)
        /\ bp(w) = "XL" <=> BREAKPOINT_XL <= w
        /\ \A v \in {monitor.width, monitor.innerWidth} :
             v <= w => Rank(bp(v)) <= Rank(bp(w))
        /\ w = 375 => bp(w) = "XS"
        /\ w = 1000 => bp(w) = "MD"
        /\ w = 1400 => bp(w) = "LG"

\* the width 1400 was sampled, in a window since resized to 1000
C19_Witness ==
    /\ monitor.last = "resize"
    /\ monitor.samples = 1
    /\ monitor.width = 1400
    /\ bp(monitor.width) = "LG"
    /\ monitor.innerWidth = 1000
    /\ bp(monitor.innerWidth) = "MD"

\* C20: exactly one of isMobile, isTablet and isDesktop holds of a width
C20_ExactlyOneDeviceClass ==
    \A w \in {monitor.width, monitor.innerWidth} :
        /\ Cardinality({c \in {"mobile", "tablet", "desktop"} :
               \/ c = "mobile" /\ isMobile(w)
               \/ c = "tablet" /\ isTablet(w)
               \/ c = "desktop" /\ isDesktop(w)}) = 1
        /\ isMobile(w) <=> w <= BREAKPOINT_SM
        /\ isDesktop(w) <=> w >= BREAKPOINT_LG

\* the width at the SM threshold was sampled: mobile, not tablet
C20_Witness ==
    /\ monitor.last = "onResizeEnd"
    /\ monitor.width = BREAKPOINT_SM
    /\ isMobile(monitor.width)
    /\ ~isTablet(monitor.width)

C21_VerticalLayoutRule ==
    LET expected ==
            \/ appGridDimensions.height > appGridDimensions.width /\ touch
            \/ appGridDimensions.width < MOBILE_WIDTH
    IN  /\ useVerticalLayout(appGridDimensions, touch) <=> expected
        /\ Handler = "onDrag" => ("setVerticalPositions" \in Calls <=> expected)
        /\ (appGridDimensions = [width |-> 375, height |-> 667] /\ touch)
           => useVerticalLayout(appGridDimensions, touch)

\* a drag moved the panel vertically on a portrait touch viewport of the MD
\* breakpoint
C21_Witness ==
    /\ Handler = "onDrag"
    /\ "setVerticalPositions" \in Calls
    /\ touch
    /\ appGridDimensions = [width |-> 1000, height |-> 1200]
    /\ bp(appGridDimensions.width) = "MD"
    /\ mainPanelVerticalPosition # 0

\* the last handler emitted init
InitEmitted == \E i \in DOMAIN Emits : Emits[i].name = "init"

\* C22: init is emitted by onMounted and by nothing else (viewport change,
\* drag, resize, setPositionByName, timers); onMounted runs once per instance
\* and emits init once, as the last thing it does, carrying the relativeLeft of
\* the current panel type that the initial geometry gave
C22_InitOncePerMount ==
    /\ [](/\ InitEmitted <=> Handler = "onMounted"
          /\ Handler = "onMounted"
             => /\ Emits = <<Emit("init", geo.relativeLeft, Undefined)>>
                /\ effects[Len(effects)] = Emits[1]
                /\ ~IsSentinel(geo))
    /\ [][(Handler' = "onMounted" /\ effects' # effects)
          => (phase = "setup" /\ phase' = "mounted")]_vars

\* init carried the centred initial position of a regular panel
C22_Witness ==
    /\ Handler = "onMounted"
    /\ Emits = <<Emit("init", geo.relativeLeft, Undefined)>>
    /\ cur = "regular"
    /\ containerWidth = 1920
    /\ geo.relativeLeft
         = (WidthUnit \div 2) - (pxToRelativeWidth(MAIN_NODE_PANEL_WIDTH, 1920) \div 2)

(* --------------------- first layout and viewport changes --------------- *)
\* The layout environment: the viewports with the 1280 px wide one, the #ndv
\* element present or not, nothing usable persisted or a width of 0.8.
LayoutEnv ==
    [touch |-> {FALSE},
     viewports |-> Viewports \cup {[width |-> 1280, height |-> 720]},
     ndvWidths |-> {1000},
     stored |-> {Null, EmptyText, toString(pxToRelativeWidth(1536, 1920))},
     xs |-> {}, ys |-> {}, resizeWidths |-> {}, tickMs |-> Saturated]

\* The first layout of a panel type and what viewport changes, with and
\* without the #ndv element, and setPositionByName make of it. The handlers of
\* events and timers are tasks of the event loop; setPositionByName is called
\* by whoever emits on the event bus, also from a microtask that runs while
\* the watcher awaits.
NextLayout ==
    \/ EventLoopTask(Mount)
    \/ EventLoopTask(TimerFire)
    \/ EventLoopTask(AnyViewportChange)
    \/ EventLoopTask(AnyViewportChangeStart)
    \/ AnyWatcherResume
    \/ AnySetPositionByName

InitLayout == InitWith(LayoutEnv, PropsPerType)
SpecLayout == InitLayout /\ [][NextLayout]_vars

\* onMounted has laid out a never-positioned panel type with nothing persisted
FirstMount ==
    /\ Handler = "onMounted"
    /\ "setPositions" \in Calls
    /\ ~Truthy(storage[cur])

\* the initial-left position of the current panel type for its width: past the
\* fixed side panel for 'dragless', else centred when an input region exists,
\* else the left bound
InitialLeft ==
    IF cur = "dragless"
    THEN pxToRelativeWidth(SIDE_MARGIN + 1 + fixedPanelWidth(props, containerWidth),
                           containerWidth)
    ELSE IF hasInputSlot(props)
    THEN (WidthUnit \div 2) - (geo.relativeWidth \div 2)
    ELSE minimumLeftPosition(props, containerWidth)

\* C23 as stated: on first mount relativeLeft is (SIDE_MARGIN + 1 +
\* fixedPanelWidth) / containerWidth for 'dragless', else 0.5 - relativeWidth/2
\* with relativeLeft = relativeRight when an input region exists, else
\* minimumLeftPosition
C23_FirstMountInitialLeft ==
    FirstMount
    => /\ geo.relativeLeft = InitialLeft
       /\ cur \in {"regular", "unknown", "wide"}
          => geo.relativeLeft = geo.relativeRight

\* C23 amended: on first mount relativeLeft is that initial-left position as
\* setPositions clamps it, whenever the initial-left position is not exactly 0
\* (which setPositions takes for an absent argument): the left bound when it
\* lies left of it, else the position that keeps the right bound when it would
\* break it, else itself; a centred panel inside the bounds has relativeLeft =
\* relativeRight, as the 'wide' panel at 1280 px has
C23_FirstMountClampedInitialLeft ==
    (FirstMount /\ InitialLeft # 0)
    => LET w == geo.relativeWidth
           minLeft == minimumLeftPosition(props, containerWidth)
           maxRight == maximumRightPosition(props, containerWidth)
       IN  /\ w = pxToRelativeWidth(initialMainPanelWidth(cur), containerWidth)
           /\ geo.relativeLeft =
                IF InitialLeft < minLeft THEN minLeft
                ELSE IF WidthUnit - InitialLeft - w < maxRight
                     THEN WidthUnit - w - maxRight
                     ELSE InitialLeft
           /\ (cur \in {"regular", "unknown", "wide"}
               /\ geo.relativeLeft = InitialLeft)
              => geo.relativeLeft = geo.relativeRight
           /\ (cur = "wide" /\ containerWidth = 1280)
              => /\ geo.relativeLeft
                      = (WidthUnit \div 2)
                        - (pxToRelativeWidth(2 * MAIN_NODE_PANEL_WIDTH, 1280) \div 2)
                 /\ geo.relativeLeft = geo.relativeRight

\* the 'wide' panel was centred at 1280 px on its first mount
C23_Witness ==
    /\ FirstMount
    /\ cur = "wide"
    /\ containerWidth = 1280
    /\ geo.relativeWidth = pxToRelativeWidth(2 * MAIN_NODE_PANEL_WIDTH, 1280)
    /\ geo.relativeLeft = geo.relativeRight
    /\ geo.relativeLeft > minimumLeftPosition(props, containerWidth)

(* ---------------------- the watcher and the event loop ----------------- *)
\* The watcher environment: the #ndv element is 1000 or 1920 px wide.
WatcherEnv ==
    [touch |-> {FALSE}, viewports |-> {v \in Viewports : v.width >= 1000},
     ndvWidths |-> {1000, 1920}, stored |-> {Null},
     xs |-> {20, 640}, ys |-> {700}, resizeWidths |-> {400},
     tickMs |-> Saturated]

\* Viewport changes with the watcher in its two parts, among the tasks of the
\* event loop.
NextWatcher ==
    \/ EventLoopTask(Mount)
    \/ EventLoopTask(TimerFire)
    \/ EventLoopTask(AnyViewportChangeStart)
    \/ EventLoopTask(AnyViewportChange)
    \/ AnyWatcherResume
    \/ EventLoopTask(AnyResizeMove)
    \/ EventLoopTask(DragStart)
    \/ EventLoopTask(AnyDrag)
    \/ AnySetPositionByName
    \/ EventLoopTask(Tick)

InitWatcher == InitWith(WatcherEnv, {P(TRUE, "plain", TRUE)})
SpecWatcher == InitWatcher /\ [][NextWatcher]_vars

\* C24 as stated: once the viewport-change handler has started, the next
\* handler to run is its own continuation, which sets containerWidth and ends
\* with the re-clamp; no drag, resize or setPositionByName handler runs in
\* between, and a run that does not await does all of it in one step
C24_ViewportChangeRunsToCompletion ==
    [][/\ watcher.awaiting
          => /\ Handler' = "nextTick"
             /\ ~watcher'.awaiting
             /\ containerWidth' \in env.ndvWidths
             /\ "setPositions" \in Calls'
       /\ (Handler' = "watchAppGridDimensions" /\ ~watcher'.awaiting
           /\ effects' # effects)
          => /\ containerWidth' = appGridDimensions'.width
             /\ "setPositions" \in Calls'
       /\ (Handler' \in {"onDrag", "onDragStart", "onResizeThrottle",
                         "setPositionByName"} /\ effects' # effects)
          => ~watcher.awaiting /\ ~watcher'.awaiting]_vars

\* C24 amended: once the viewport-change handler has started, no drag or
\* resize handler runs before its continuation, which sets containerWidth and
\* ends with the re-clamp; only setPositionByName, called from a microtask,
\* runs in between, and it leaves containerWidth and the pending continuation
\* as they are; a run that does not await does all of it in one step
C24_NoDragOrResizeBeforeReclamp ==
    [][/\ watcher.awaiting
          => \/ /\ Handler' = "setPositionByName"
                /\ watcher' = watcher
                /\ containerWidth' = containerWidth
                /\ appGridDimensions' = appGridDimensions
             \/ /\ Handler' = "nextTick"
                /\ ~watcher'.awaiting
                /\ containerWidth' \in env.ndvWidths
                /\ "setPositions" \in Calls'
       /\ (Handler' = "watchAppGridDimensions" /\ ~watcher'.awaiting
           /\ effects' # effects)
          => /\ containerWidth' = appGridDimensions'.width
             /\ "setPositions" \in Calls'
       /\ (Handler' \in {"onDrag", "onDragStart", "onResizeThrottle"}
           /\ effects' # effects)
          => ~watcher.awaiting /\ ~watcher'.awaiting]_vars

\* the continuation of the watcher re-clamped the geometry during a drag, the
\* container being narrower than the viewport
C24_Witness ==
    /\ Handler = "nextTick"
    /\ ~watcher.awaiting
    /\ dragSession.active
    /\ appGridDimensions.width = 1920
    /\ containerWidth = 1000
    /\ geo.relativeWidth = pxToRelativeWidth(MIN_PANEL_WIDTH, 1000)

\* C25: in vertical layout the relative top, height and bottom of the main
\* panel's box add up to 1, with the default top and after vertical drags and
\* changes of the viewport height
C25_VerticalSumIsOne ==
    LET h == appGridDimensions.height
        box == verticalMainPanelStyles(mainPanelVerticalPosition, props, h)
    IN  useVerticalLayout(appGridDimensions, touch)
        => /\ box.topPosition + pxToRelativeHeight(initialMainPanelHeight(cur), h)
                + box.bottomPosition = HeightUnit
           /\ mainPanelVerticalPosition = 0
              => box.topPosition
                   = calculatedVerticalPositions(props, h).mainPanelRelativeTop
           /\ mainPanelVerticalPosition # 0
              => box.topPosition = mainPanelVerticalPosition

\* a panel dragged down on a tall viewport is shown on a shorter one
C25_Witness ==
    /\ Handler = "watchAppGridDimensions"
    /\ useVerticalLayout(appGridDimensions, touch)
    /\ appGridDimensions.height = 667
    /\ mainPanelVerticalPosition
         = dragCandidateTop(props, 1200, 700)
    /\ mainPanelVerticalPosition
         # calculatedVerticalPositions(props, 667).mainPanelRelativeTop

\* the viewport-change handler has to raise the width to the minimum for the
\* new container width, and the previous relativeLeft is within the bounds for
\* the raised width (at or right of minimumLeftPosition, leaving at least
\* maximumRightPosition on the right)
RaisedWithinBounds ==
    LET minRelativeWidth == pxToRelativeWidth(MIN_PANEL_WIDTH, containerWidth')
    IN  /\ WatcherRan'
        /\ geo.relativeWidth < minRelativeWidth
        /\ geo.relativeLeft >= minimumLeftPosition(props, containerWidth')
        /\ WidthUnit - geo.relativeLeft - minRelativeWidth
              >= maximumRightPosition(props, containerWidth')

\* C26: a viewport-change handler leaves relativeWidth >=
\* MIN_PANEL_WIDTH / containerWidth for the new container width; when it had
\* to raise the width to that minimum and the previous relativeLeft is within
\* the bounds, relativeLeft is unchanged
C26_MinimumWidthKeepsAnchor ==
    [][(WatcherRan' /\ effects' # effects)
       => /\ geo'.relativeWidth
               >= pxToRelativeWidth(MIN_PANEL_WIDTH, containerWidth')
          /\ RaisedWithinBounds
             => /\ geo'.relativeWidth
                     = pxToRelativeWidth(MIN_PANEL_WIDTH, containerWidth')
                /\ geo'.relativeLeft = geo.relativeLeft]_vars

\* C27: after a viewport-change handler on a viewport wider than
\* MIN_WINDOW_WIDTH, relativeLeft >= minimumLeftPosition and relativeRight >=
\* maximumRightPosition
C27_WithinBoundsAfterViewportChange ==
    (WatcherRan /\ appGridDimensions.width > MIN_WINDOW_WIDTH)
    => WithinBounds

\* C28: a viewport change handled while the #ndv element does not exist leaves
\* containerWidth as it was
C28_ContainerWidthKeptWithoutElement ==
    [][Handler' = "watchAppGridDimensions"
       => \A dimensions \in env.viewports :
            ViewportChange(dimensions)
            => containerWidth' = containerWidth]_vars

\* C29: once the component is mounted the geometry of the current panel type
\* is never the sentinel, also after the current panel type has changed
C29_MountedNeverSentinel == phase = "mounted" => ~IsSentinel(geo)

\* the left edge of the output panel as rendered, in 1/WidthUnit px
OutputPanelRenderedLeft ==
    LET styles == outputPanelStyles(dims, props, containerWidth)
    IN  styles.left + styles.translateX

\* C30: the rendered left edge of the output panel (mainLeft + mainWidth less
\* the translate offset) is never right of 1 - (MIN_PANEL_WIDTH + SIDE_MARGIN)
\* / containerWidth, and is mainLeft + mainWidth whenever that is left of this
\* limit
C30_OutputPanelStaysOnScreen ==
    LET limit == (containerWidth - (MIN_PANEL_WIDTH + SIDE_MARGIN)) * WidthUnit
        outputLeft == (geo.relativeLeft + geo.relativeWidth) * containerWidth
    IN  /\ OutputPanelRenderedLeft <= limit
        /\ outputLeft < limit => OutputPanelRenderedLeft = outputLeft
        /\ outputLeft >= limit => OutputPanelRenderedLeft = limit

\* the main panel was put at the right bound and the output panel is held at
\* the limit
C30_Witness ==
    /\ Handler = "setPositionByName"
    /\ containerWidth = 1000
    /\ geo.relativeRight = maximumRightPosition(props, containerWidth)
    /\ outputPanelRelativeTranslate(dims, props, containerWidth)
         = pxToRelativeWidth(MIN_PANEL_WIDTH + SIDE_MARGIN, 1000)
           - maximumRightPosition(props, containerWidth)
    /\ OutputPanelRenderedLeft
         = (1000 - (MIN_PANEL_WIDTH + SIDE_MARGIN)) * WidthUnit

(* ------------------------------ the panel type ------------------------- *)
AnyPropsOfAllChange == \E p \in PropsSet : PropsChange(p)

\* The panel type environment: every combination of props and slots.
PanelTypeEnv ==
    [touch |-> {FALSE}, viewports |-> {v \in Viewports : v.width >= 1000},
     ndvWidths |-> {}, stored |-> {Null},
     xs |-> {}, ys |-> {}, resizeWidths |-> {}, tickMs |-> Saturated]

\* Mounting with any props and slots, which the parent then changes.
NextPanelType ==
    \/ Mount
    \/ TimerFire
    \/ AnyPropsOfAllChange
    \/ AnySwitchSelectedNode

InitPanelType == InitWith(PanelTypeEnv, PropsSet)
SpecPanelType == InitPanelType /\ [][NextPanelType]_vars

\* C31: the panel type is 'inputless' whenever there is no input region,
\* else 'dragless' whenever dragging is not permitted, else 'unknown' when the
\* node type is not known, else the parameter-pane kind the node type declares
\* or 'regular'; it is one of the five panel types, and it is the type whose
\* geometry onMounted initialises
C31_PanelTypePriority ==
    LET expected ==
            IF ~props.hasInput THEN "inputless"
            ELSE IF ~props.isDraggable THEN "dragless"
            ELSE IF props.nodeType = "null" THEN "unknown"
            ELSE IF props.nodeType = "wide" THEN "wide"
            ELSE "regular"
    IN  /\ currentNodePaneType(props) = expected
        /\ currentNodePaneType(props)
             \in {"regular", "dragless", "unknown", "inputless", "wide"}
        /\ Handler = "onMounted"
           => \A t \in PanelTypes : IsSentinel(dims[t]) <=> t # expected

\* a panel without input region that is neither draggable nor of a known node
\* type was mounted as 'inputless'
C31_Witness ==
    /\ Handler = "onMounted"
    /\ ~props.hasInput
    /\ ~props.isDraggable
    /\ props.nodeType = "null"
    /\ currentNodePaneType(props) = "inputless"
    /\ ~IsSentinel(dims["inputless"])

\* C32: for a panel whose width fits between the bounds,
\* setPositionByName('minLeft') leaves relativeLeft = minimumLeftPosition and
\* setPositionByName('maxRight') leaves relativeRight = maximumRightPosition
C32_SnapsToNamedBound ==
    [][(Handler' = "setPositionByName" /\ WidthFits)
       => /\ SetPositionByName("minLeft")
             => geo'.relativeLeft = minimumLeftPosition(props, containerWidth)
          /\ SetPositionByName("maxRight")
             => geo'.relativeRight = maximumRightPosition(props, containerWidth)]_vars

(* ---------------------------- position drags --------------------------- *)
\* The pointer environment: drags whose candidate left is negative (x = 20),
\* exactly 0 (half the default width of 390 px: x = 195), inside the bounds
\* and beyond the right bound.
PointerEnv ==
    [touch |-> {FALSE}, viewports |-> Viewports,
     ndvWidths |-> {}, stored |-> {Null},
     xs |-> {20, 195, 640, 990}, ys |-> {700}, resizeWidths |-> {},
     tickMs |-> Saturated]

\* the panel types that show the drag button
PropsWithDragButton ==
    {P(TRUE, "plain", TRUE), P(TRUE, "wide", TRUE), P(TRUE, "null", TRUE),
     P(TRUE, "plain", FALSE)}

\* Drag sessions on any viewport, with pointer positions on both sides of
\* every bound.
NextPointer ==
    \/ Mount
    \/ TimerFire
    \/ AnyViewportChange
    \/ DragStart
    \/ AnyDrag
    \/ DragEnd

InitPointer == InitWith(PointerEnv, PropsWithDragButton)
SpecPointer == InitPointer /\ [][NextPointer]_vars

\* C33: for a panel whose width fits between the bounds, a horizontal position
\* drag with candidate left c leaves relativeLeft =
\* max(minimumLeftPosition, min(c, 1 - relativeWidth - maximumRightPosition))
\* and relativeWidth unchanged, for every c, 0 and negative values included
C33_DragClampsCandidate ==
    [][(Handler' = "onDrag" /\ WidthFits)
       => \A x \in env.xs :
            HorizontalDrag(x)
            => LET c == dragCandidateLeft(dims, props, containerWidth, x)
                   minLeft == minimumLeftPosition(props, containerWidth)
                   maxRight == maximumRightPosition(props, containerWidth)
               IN  /\ geo'.relativeLeft
                        = Max(minLeft, Min(c, WidthUnit - geo.relativeWidth - maxRight))
                   /\ geo'.relativeWidth = geo.relativeWidth]_vars

\* C34: isDragging is true for the whole of every drag session, from its
\* drag-start to its drag-end, in every interleaving with the deferred step of
\* an earlier drag-end
C34_DraggingThroughoutSession == dragSession.active => isDragging

\* C35: after every vertical drag move the main panel's top is within its
\* bounds for the current viewport height: minTop <= mainPanelVerticalPosition
\* <= maxTop, with minTop = (TOP_BOTTOM_MARGIN + PANEL_HEIGHT +
\* VERTICAL_PANELS_MARGIN) / height and maxTop = 1 - minTop - mainPanelHeight / height
C35_VerticalTopWithinBounds ==
    LET h == appGridDimensions.height
        minTop == pxToRelativeHeight(
                      TOP_BOTTOM_MARGIN + PANEL_HEIGHT + VERTICAL_PANELS_MARGIN, h)
        maxTop == HeightUnit - minTop
                  - pxToRelativeHeight(initialMainPanelHeight(cur), h)
    IN  (Handler = "onDrag" /\ "setVerticalPositions" \in Calls)
        => /\ minTop <= mainPanelVerticalPosition
           /\ mainPanelVerticalPosition <= maxTop

\* the box with these distances from the top and the bottom edge has its top
\* edge at or above its bottom edge
NonNegativeHeight(top, bottom) == top + bottom <= HeightUnit

\* C36: whenever vertical layout is in use the input, main and output bands
\* each have a non-negative height; in particular the output band's top edge
\* is not below its pinned bottom edge
C36_VerticalBandsWellFormed ==
    LET h == appGridDimensions.height
        input == verticalInputPanelStyles(mainPanelVerticalPosition, props, h)
        main == verticalMainPanelStyles(mainPanelVerticalPosition, props, h)
        output == verticalOutputPanelStyles(mainPanelVerticalPosition, props, h)
    IN  (phase = "mounted" /\ useVerticalLayout(appGridDimensions, touch))
        => /\ NonNegativeHeight(input.top, input.bottom)
           /\ NonNegativeHeight(main.topPosition, main.bottomPosition)
           /\ NonNegativeHeight(output.top, output.bottom)

\* C37: a drag move handled in vertical layout changes only
\* mainPanelVerticalPosition and leaves the horizontal geometry of every panel
\* type as it was; a drag move handled in horizontal layout leaves
\* mainPanelVerticalPosition as it was; no drag move writes to persistence, and
\* whatever any handler writes is the current relativeWidth, never the vertical top
C37_VerticalTopIndependent ==
    [][/\ Handler' = "onDrag"
          => /\ storage' = storage /\ Writes' = <<>>
             /\ UNCHANGED <<containerWidth, isDragging, props, appGridDimensions>>
             /\ IF useVerticalLayout(appGridDimensions, touch)
                THEN /\ "setVerticalPositions" \in Calls'
                     /\ \A t \in PanelTypes : dims'[t] = dims[t]
                ELSE /\ "setPositions" \in Calls'
                     /\ mainPanelVerticalPosition' = mainPanelVerticalPosition
       /\ \A i \in 1..Len(Writes') :
             Writes'[i] = Write(cur', toString(geo'.relativeWidth))]_vars

\* a vertical position set by a vertical drag has survived a horizontal drag
\* move on a wider viewport, which moved the panel
C37_Witness ==
    /\ Handler = "onDrag"
    /\ "setPositions" \in Calls
    /\ ~useVerticalLayout(appGridDimensions, touch)
    /\ mainPanelVerticalPosition # 0
    /\ geo.relativeLeft = minimumLeftPosition(props, containerWidth)

(* ------------------------- what is persisted when ---------------------- *)
\* The persistence environment: every handler of the component that changes
\* the geometry, and the two that end a gesture.
PersistEnv ==
    [touch |-> {FALSE}, viewports |-> {v \in Viewports : v.width <= 1000},
     ndvWidths |-> {},
     stored |-> {toString(pxToRelativeWidth(400, 1920))},
     xs |-> {640}, ys |-> {700}, resizeWidths |-> {500},
     tickMs |-> Saturated]

NextPersist ==
    \/ Mount
    \/ TimerFire
    \/ AnyViewportChange
    \/ AnyResizeMove
    \/ ResizeEnd
    \/ DragStart
    \/ AnyDrag
    \/ DragEnd
    \/ AnySetPositionByName
    \/ Tick

InitPersist == InitWith(PersistEnv, {P(TRUE, "plain", TRUE)})
SpecPersist == InitPersist /\ [][NextPersist]_vars

\* C38: the persisted width changes only at drag-end or resize-end; mount,
\* restore, viewport changes, drag moves, resize moves and setPositionByName
\* write nothing; each drag-end or resize-end writes exactly the current
\* relativeWidth under the key of the current panel type
C38_WritesOnlyAtGestureEnd ==
    [][/\ (storage' # storage \/ Writes' # <<>>)
          => Handler' \in {"onDragEnd", "onResizeEnd"}
       /\ Handler' \in {"onDragEnd", "onResizeEnd"}
          => /\ Writes' = <<Write(cur, toString(geo.relativeWidth))>>
             /\ storage' = [storage EXCEPT ![cur] = toString(geo.relativeWidth)]
             /\ dims' = dims]_vars

\* a resize-end has replaced the width persisted by an earlier session with
\* the width of the resized panel, and has left the other keys as they were
C38_Witness ==
    /\ Handler = "onResizeEnd"
    /\ storage[cur] = toString(geo.relativeWidth)
    /\ storage[cur] # toString(pxToRelativeWidth(400, 1920))
    /\ geo.relativeWidth = pxToRelativeWidth(500, containerWidth)
    /\ \A t \in PanelTypes \ {cur} :
         storage[t] = toString(pxToRelativeWidth(400, 1920))

(* ------------------- the breakpoint monitor and the layout -------------- *)
\* The window environment: a phone, a window exactly BREAKPOINT_SM wide (in
\* landscape) and a tablet in portrait, with and without touch.
WindowEnv ==
    [touch |-> {FALSE, TRUE},
     viewports |-> {[width |-> 375, height |-> 667],
                    [width |-> BREAKPOINT_SM, height |-> 720],
                    [width |-> 1000, height |-> 1200]},
     ndvWidths |-> {}, stored |-> {Null}, xs |-> {}, ys |-> {},
     resizeWidths |-> {}, tickMs |-> Saturated]

\* the window takes the width of one of the viewports
AnyWindowResizeToViewport == \E v \in env.viewports : WindowResize(v.width)

\* The panels and a breakpoint monitor in the same window: a resize reaches
\* the monitor through its debounced listener and the panels through
\* uiStore.appGridDimensions.
NextWindow ==
    \/ Mount
    \/ TimerFire
    \/ AnyViewportChange
    \/ BreakpointsMount
    \/ AnyWindowResizeToViewport
    \/ DebounceTick
    \/ DebounceFire
    \/ AnySwitchSelectedNode

InitWindow ==
    /\ InitPanels(WindowEnv, {P(TRUE, "plain", TRUE)})
    /\ monitor = useBreakpoints(appGridDimensions.width)

SpecWindow == InitWindow /\ [][NextWindow]_vars

\* C39: whenever the breakpoint monitor reports isMobile for the width the
\* panels are laid out in, useVerticalLayout is true for that width, whatever
\* the height and the touch capability
C39_MobileImpliesVerticalLayout ==
    (monitor.width = appGridDimensions.width /\ isMobile(monitor.width))
    => useVerticalLayout(appGridDimensions, touch)

====
